---- MODULE Spec2Model ----
(***************************************************************************)
(* Model of the mr_peabody speech relay: the microphone client and the     *)
(* transcription server (mic_client.py, stt_server.py), the speech request *)
(* client and the synthesis server (spkr_client.py, tts_server.py).        *)
(*                                                                         *)
(* Byte strings are sequences of one-character strings.  A TCP direction   *)
(* is the sequence of bytes written and not yet read; recv returns any     *)
(* non-empty prefix of it (up to the buffer size), or the empty string     *)
(* once the peer has closed and nothing is left.                           *)
(***************************************************************************)
EXTENDS Integers, Sequences, FiniteSets, TLC

\* ------------------------------------------------------------------------
\* Bounds of the model
\* ------------------------------------------------------------------------

\* Largest number of audio chunks one recording captures.
MaxChunks == 2

\* ------------------------------------------------------------------------
\* Byte-string helpers (Python bytes / str operations)
\* ------------------------------------------------------------------------

Min(a, b) == IF a <= b THEN a ELSE b

\* s[i:] of Python, with TLA+'s 1-based i.
Tail_(s, i) == SubSeq(s, i, Len(s))

\* The positions at which sub occurs in s.
Occurrences(s, sub) ==
    {i \in 1..(Len(s) - Len(sub) + 1) : SubSeq(s, i, i + Len(sub) - 1) = sub}

\* `sub in s`
Contains(s, sub) == Occurrences(s, sub) # {}

\* s.find(sub), 1-based; only used when sub occurs.
FirstIndex(s, sub) ==
    CHOOSE i \in Occurrences(s, sub) : \A j \in Occurrences(s, sub) : i <= j

\* s.startswith(p)
StartsWith(s, p) == Len(s) >= Len(p) /\ SubSeq(s, 1, Len(p)) = p

\* s.split(sep, maxsplit): at most maxsplit cuts, leftmost first.  (The
\* place of the cut is bound as a value, so that it is computed once.)
RECURSIVE SplitMax(_, _, _)
SplitMax(s, sep, maxsplit) ==
    IF maxsplit = 0 \/ ~Contains(s, sep)
    THEN <<s>>
    ELSE CHOOSE parts \in
             {<<SubSeq(s, 1, i - 1)>>
                  \o SplitMax(Tail_(s, i + Len(sep)), sep, maxsplit - 1)
              : i \in {FirstIndex(s, sep)}} : TRUE

\* s.split(sep): every occurrence cuts.
Split(s, sep) == SplitMax(s, sep, Len(s))

\* b''.join(frames)
RECURSIVE Join(_)
Join(frames) ==
    IF frames = <<>> THEN <<>> ELSE Head(frames) \o Join(Tail(frames))

Digits == <<"0", "1", "2", "3", "4", "5", "6", "7", "8", "9">>

IsDigit(c) == \E d \in 1..10 : Digits[d] = c

DigitVal(c) == (CHOOSE d \in 1..10 : Digits[d] = c) - 1

\* str(n) for n >= 0
RECURSIVE IntToStr(_)
IntToStr(n) ==
    IF n < 10 THEN <<Digits[n + 1]>>
    ELSE IntToStr(n \div 10) \o <<Digits[(n % 10) + 1]>>

\* Whether int(s) succeeds, for strings over the bytes of the model: a
\* non-empty run of decimal digits.
IsInt(s) == Len(s) > 0 /\ \A i \in 1..Len(s) : IsDigit(s[i])

\* int(s) for a string of digits
RECURSIVE StrToInt(_)
StrToInt(s) ==
    IF Len(s) = 0 THEN 0
    ELSE 10 * StrToInt(SubSeq(s, 1, Len(s) - 1)) + DigitVal(s[Len(s)])

\* What sock.recv(bufsize) may return: a non-empty prefix of the bytes in
\* flight, or b"" when none is left and the peer has closed.
Recv(chan, bufsize, peer_closed) ==
    IF chan # <<>>
    THEN {SubSeq(chan, 1, k) : k \in 1..Min(Len(chan), bufsize)}
    ELSE IF peer_closed THEN {<<>>} ELSE {}

\* ------------------------------------------------------------------------
\* Protocol literals
\* ------------------------------------------------------------------------

ACK == <<"A","C","K">>
END == <<"E","N","D">>
END_TRANSCRIPTION ==
    <<"E","N","D","_","T","R","A","N","S","C","R","I","P","T","I","O","N">>

NO_RESULTS ==
    <<"N","o"," ","t","r","a","n","s","c","r","i","p","t","i","o","n"," ",
      "r","e","s","u","l","t","s"," ","r","e","t","u","r","n","e","d","."," ",
      "T","h","e"," ","a","u","d","i","o"," ","m","i","g","h","t"," ","b","e",
      " ","s","i","l","e","n","t"," ","o","r"," ","u","n","c","l","e","a","r",
      ".">>

\* Audio recording parameters of the microphone client
RATE == 16000
CHUNK == 1024
CHANNELS == 1
\* p.get_sample_size(pyaudio.paInt16)
SAMPLE_SIZE == 2

\* ------------------------------------------------------------------------
\* State
\* ------------------------------------------------------------------------

VARIABLES
    \* --- microphone client, record_and_send ---
    mic_pc,            \* position in record_and_send
    mic_sock,          \* "none" | "open" | "closed" | "reclaimed"
    mic_duration,      \* argument: recording time in milliseconds
    mic_ack,           \* bytes read as the acknowledgment
    mic_frames,        \* list of captured chunks
    mic_transcription_data,
    mic_sent,          \* every byte written to the socket, in order
    mic_local_file,    \* frames of local_recording.wav, or <<>> when absent
    mic_printed,       \* the transcript printed, <<text>> or <<>>
    \* --- transcription server, handle_client ---
    stt_pc,            \* position in handle_client
    stt_sock,          \* "none" | "open" | "closed"
    stt_format_info,   \* <<bytes>>: what the first recv returned
    stt_format,        \* [rate, channels, sample_width] once parsed
    stt_audio_data,
    stt_temp_file,     \* <<wav>> while the temporary file exists, else <<>>
    stt_transcription,
    stt_results,       \* <<results>> once client.recognize has returned
    stt_sent,          \* every byte written to the socket, in order
    \* --- the connection between them ---
    mic2stt,           \* bytes in flight, client to server
    stt2mic            \* bytes in flight, server to client

mic_vars == <<mic_pc, mic_sock, mic_duration, mic_ack,
              mic_frames, mic_transcription_data, mic_sent, mic_local_file,
              mic_printed>>
stt_vars == <<stt_pc, stt_sock, stt_format, stt_format_info,
              stt_audio_data, stt_temp_file,
              stt_transcription, stt_results, stt_sent>>
chan_vars == <<mic2stt, stt2mic>>

VARIABLES
    \* --- speech request client, send_text_and_play_speech ---
    spk_pc,            \* position in send_text_and_play_speech
    spk_sock,          \* "none" | "open" | "closed" | "reclaimed"
    spk_args,          \* [text, voice_name, language_code, speaking_rate]
    spk_size_data,
    spk_expected_size, \* <<n>> once parsed, else <<>>
    spk_temp_file,     \* <<bytes>> while the temporary file exists
    spk_saved,         \* <<bytes>> copied to the save path, else <<>>
    spk_played,        \* <<bytes>> handed to the mixer, else <<>>
    spk_sent,          \* every byte written to the socket, in order
    spk_outcome,       \* how the reply's first line was taken
    \* --- synthesis server, handle_client ---
    tts_pc,            \* position in handle_client
    tts_sock,          \* "none" | "open" | "closed"
    tts_data,
    tts_synth_args,    \* <<arguments of synthesize_text>> once called
    tts_audio_content,
    tts_error_msg,
    tts_broken,        \* a write on the socket has failed
    tts_sent,          \* every byte written to the socket, in order
    \* --- the connection between them ---
    spk2tts,           \* bytes in flight, client to server
    tts2spk            \* bytes in flight, server to client

spk_vars == <<spk_pc, spk_sock, spk_args, spk_size_data, spk_expected_size,
              spk_temp_file, spk_saved, spk_played, spk_sent, spk_outcome>>
tts_vars == <<tts_pc, tts_sock, tts_data, tts_synth_args, tts_audio_content,
              tts_error_msg, tts_broken, tts_sent>>
tts_chan_vars == <<spk2tts, tts2spk>>

VARIABLES
    \* --- any client of the synthesis server ---
    any_pc,            \* "idle" | "start" | "sent"
    any_req            \* the request it writes

any_vars == <<any_pc, any_req>>

VARIABLES
    \* --- speech request client, interactive_mode ---
    int_pc,            \* "idle" | "prompt" | "exited"
    int_voice_name,
    int_language_code,
    int_speaking_rate, \* in thousandths
    int_save_file,     \* <<path>>, or <<>> for None
    int_lines,         \* number of input() calls so far
    int_last,          \* history: the send of the last line, if it sent
    int_text,          \* history: <<text>> of the last line input() returned
    int_printed        \* what the loop printed in its last turn

int_vars == <<int_pc, int_voice_name, int_language_code, int_speaking_rate,
              int_save_file, int_lines, int_last, int_text, int_printed>>

VARIABLES
    \* --- a relay server and the connections it has accepted ---
    srv_kind,          \* "none" | "stt" | "tts": the server program that runs
    srv_listening,     \* the accept loop of start_server runs
    srv_api,           \* the synthesis capability, a function of its arguments
    srv_files,         \* the server's directory: file name -> <<content>> or <<>>
    conns              \* per connection: its handler and its client

srv_vars == <<srv_kind, srv_listening, srv_api, srv_files, conns>>

\* The transcription exchange and the synthesis exchange.
stt_exchange == <<mic_vars, stt_vars, chan_vars>>
tts_exchange == <<spk_vars, tts_vars, tts_chan_vars>>

\* What a step of one program leaves alone: the other programs.
outside_stt == <<tts_exchange, any_vars, int_vars, srv_vars>>
outside_tts == <<stt_exchange, any_vars, int_vars, srv_vars>>
outside_int == <<stt_exchange, tts_exchange, any_vars, srv_vars>>
outside_srv == <<stt_exchange, tts_exchange, any_vars, int_vars>>

vars == <<stt_exchange, tts_exchange, any_vars, int_vars, srv_vars>>

\* ------------------------------------------------------------------------
\* Microphone client (mic_client.py)
\* ------------------------------------------------------------------------

\* The chunks stream.read(CHUNK) may return.
AudioChunks == {<<"a">>, <<"E","N">>, <<"D">>}

\* Recording times, in milliseconds, for 0..MaxChunks chunks.
Durations == {64 * n : n \in 0..MaxChunks}

\* int(RATE / CHUNK * duration), duration in milliseconds
NumChunks(duration) == (RATE * duration) \div (CHUNK * 1000)

\* f"{RATE},{CHANNELS},{p.get_sample_size(FORMAT)}"
FormatInfo ==
    IntToStr(RATE) \o <<",">> \o IntToStr(CHANNELS) \o <<",">>
        \o IntToStr(SAMPLE_SIZE)

\* The server end is gone: a write may fail, a read sees end-of-stream.
SttGone == stt_sock = "closed"
MicGone == mic_sock \in {"closed", "reclaimed"}

\* client_socket.sendall(data) in the client: the bytes go out, or, when
\* the server has closed, the call may raise and the exception reaches
\* main(), which prints it and lets the process end.
MicSendall(data, next_pc) ==
    \/ /\ mic_sent' = mic_sent \o data
       /\ mic2stt' = IF SttGone THEN mic2stt ELSE mic2stt \o data
       /\ mic_pc' = next_pc
       /\ UNCHANGED mic_sock
    \/ /\ SttGone
       /\ mic_pc' = "failed"
       /\ mic_sock' = "reclaimed"
       /\ UNCHANGED <<mic_sent, mic2stt>>

\* A client that took any beginning of ACK for the acknowledgment.
AckPrefixAccepted(ack) == ack # <<>> /\ StartsWith(ACK, ack)

\* the test of the acknowledgment: `if ack != b"ACK": return`
AckAccepted(ack) == ack = ACK

MicConnect ==
    /\ mic_pc = "connect"
    /\ UNCHANGED outside_stt
    /\ \/ \* connected: the server accepts and starts a handler
          /\ stt_pc = "listen"
          /\ mic_sock' = "open"
          /\ mic_pc' = "send_header"
          /\ stt_pc' = "recv_header"
          /\ stt_sock' = "open"
       \/ \* ConnectionRefusedError
          /\ mic_pc' = "returned"
          /\ UNCHANGED <<mic_sock, stt_pc, stt_sock>>
    /\ UNCHANGED <<mic_duration, mic_ack, mic_frames,
                   mic_transcription_data, mic_sent, mic_local_file,
                   mic_printed, stt_format, stt_format_info,
                   stt_audio_data, stt_temp_file,
                   stt_transcription, stt_results, stt_sent, chan_vars>>

MicSendHeader ==
    /\ mic_pc = "send_header"
    /\ UNCHANGED outside_stt
    /\ MicSendall(FormatInfo, "wait_ack")
    /\ UNCHANGED <<mic_duration, mic_ack, mic_frames,
                   mic_transcription_data, mic_local_file, mic_printed,
                   stt_vars, stt2mic>>

MicRecvAck ==
    /\ mic_pc = "wait_ack"
    /\ UNCHANGED outside_stt
    /\ \E ack \in Recv(stt2mic, 1024, SttGone) :
          /\ stt2mic' = Tail_(stt2mic, Len(ack) + 1)
          /\ mic_ack' = ack
          /\ mic_pc' = IF AckAccepted(ack) THEN "record" ELSE "returned"
    /\ UNCHANGED <<mic_sock, mic_duration, mic_frames,
                   mic_transcription_data, mic_sent, mic_local_file,
                   mic_printed, stt_vars, mic2stt>>

\* A capture loop that puts the newest chunk first in its buffer.
MicRecordChunkNewestFirst ==
    /\ mic_pc = "record"
    /\ UNCHANGED outside_stt
    /\ Len(mic_frames) < NumChunks(mic_duration)
    /\ \E data \in AudioChunks :
          /\ mic_frames' = <<data>> \o mic_frames
          /\ MicSendall(data, "record")
    /\ UNCHANGED <<mic_duration, mic_ack,
                   mic_transcription_data, mic_local_file, mic_printed,
                   stt_vars, stt2mic>>

\* One iteration of the capture loop: read a chunk, buffer it, forward it.
MicRecordChunk ==
    /\ mic_pc = "record"
    /\ UNCHANGED outside_stt
    /\ Len(mic_frames) < NumChunks(mic_duration)
    /\ \E data \in AudioChunks :
          /\ mic_frames' = Append(mic_frames, data)
          /\ MicSendall(data, "record")
    /\ UNCHANGED <<mic_duration, mic_ack,
                   mic_transcription_data, mic_local_file, mic_printed,
                   stt_vars, stt2mic>>

MicSendEnd ==
    /\ mic_pc = "record"
    /\ UNCHANGED outside_stt
    /\ Len(mic_frames) = NumChunks(mic_duration)
    /\ MicSendall(END, "recv_transcription")
    /\ UNCHANGED <<mic_duration, mic_ack, mic_frames,
                   mic_transcription_data, mic_local_file, mic_printed,
                   stt_vars, stt2mic>>

\* One recv of the transcription loop; on the last one the function goes
\* on to close the socket, save the recording when its save_local argument
\* asks for it, and print the transcript.
MicRecvTranscription ==
    /\ mic_pc = "recv_transcription"
    /\ UNCHANGED outside_stt
    /\ \E chunk \in Recv(stt2mic, 4096, SttGone), save_local \in BOOLEAN :
          /\ stt2mic' = Tail_(stt2mic, Len(chunk) + 1)
          /\ IF chunk = <<>> \/ Contains(chunk, END_TRANSCRIPTION)
             THEN LET data == IF Contains(chunk, END_TRANSCRIPTION)
                              THEN mic_transcription_data
                                     \o Split(chunk, END_TRANSCRIPTION)[1]
                              ELSE mic_transcription_data
                  IN  /\ mic_transcription_data' = data
                      /\ mic_sock' = "closed"
                      /\ mic_local_file' = IF save_local
                                           THEN <<Join(mic_frames)>>
                                           ELSE mic_local_file
                      /\ mic_printed' = <<data>>
                      /\ mic_pc' = "returned"
             ELSE /\ mic_transcription_data' = mic_transcription_data \o chunk
                  /\ UNCHANGED <<mic_sock, mic_local_file, mic_printed, mic_pc>>
    /\ UNCHANGED <<mic_duration, mic_ack, mic_frames,
                   mic_sent, stt_vars, mic2stt>>

\* Ctrl-C while the client waits or records: main() prints "Recording
\* stopped by user", the process ends and its socket is closed with it.
MicInterrupt ==
    /\ mic_pc \in {"wait_ack", "record", "recv_transcription"}
    /\ UNCHANGED outside_stt
    /\ mic_pc' = "interrupted"
    /\ mic_sock' = "reclaimed"
    /\ UNCHANGED <<mic_duration, mic_ack, mic_frames,
                   mic_transcription_data, mic_sent, mic_local_file,
                   mic_printed, stt_vars, chan_vars>>

\* record_and_send returned without client_socket.close() (the
\* acknowledgment did not match): the socket object is dropped and the
\* interpreter closes it.
MicSocketDropped ==
    /\ mic_pc = "returned"
    /\ UNCHANGED outside_stt
    /\ mic_sock = "open"
    /\ mic_sock' = "reclaimed"
    /\ UNCHANGED <<mic_pc, mic_duration, mic_ack, mic_frames,
                   mic_transcription_data, mic_sent, mic_local_file,
                   mic_printed, stt_vars, chan_vars>>

\* ------------------------------------------------------------------------
\* Transcription server (stt_server.py)
\* ------------------------------------------------------------------------

\* A parser that takes the first three fields and ignores further ones.
ParseFirstThreeFields(format_info) ==
    CHOOSE parsed \in
        {IF Len(parts) >= 3 /\ \A i \in 1..3 : IsInt(parts[i])
         THEN [ok |-> TRUE, rate |-> StrToInt(parts[1]),
               channels |-> StrToInt(parts[2]),
               sample_width |-> StrToInt(parts[3])]
         ELSE [ok |-> FALSE, rate |-> 0, channels |-> 0, sample_width |-> 0]
         : parts \in {Split(format_info, <<",">>)}} : TRUE

\* rate, channels, sample_width = map(int, format_info.split(','))
ParseFormatInfo(format_info) ==
    CHOOSE parsed \in
        {IF Len(parts) = 3 /\ \A i \in 1..3 : IsInt(parts[i])
         THEN [ok |-> TRUE, rate |-> StrToInt(parts[1]),
               channels |-> StrToInt(parts[2]),
               sample_width |-> StrToInt(parts[3])]
         ELSE [ok |-> FALSE, rate |-> 0, channels |-> 0, sample_width |-> 0]
         : parts \in {Split(format_info, <<",">>)}} : TRUE

\* What client.recognize may return: the alternatives of all results, in
\* order; confidence in 1/10000.
ApiResponses ==
    { <<>>,
      << [transcript |-> <<"h","i">>, confidence |-> 9000] >>,
      << [transcript |-> <<"h","i">>, confidence |-> 9000],
         [transcript |-> <<"E","N","D">>, confidence |-> 625] >> }

\* f"{confidence:.4f}" for a confidence in 0..1
FormatConfidence(c) ==
    LET frac == IntToStr(c % 10000)
        pad  == [i \in 1..(4 - Len(frac)) |-> "0"]
    IN  IntToStr(c \div 10000) \o <<".">> \o pad \o frac

\* The result_text transcribe_audio_file builds from the alternatives.
RECURSIVE FormatResultsFrom(_, _)
FormatResultsFrom(results, i) ==
    IF i > Len(results) THEN <<>>
    ELSE <<"R","e","s","u","l","t"," ">> \o IntToStr(i) \o <<":","\n">>
         \o <<" "," ","T","r","a","n","s","c","r","i","p","t",":"," ">>
         \o results[i].transcript \o <<"\n">>
         \o <<" "," ","C","o","n","f","i","d","e","n","c","e",":"," ">>
         \o FormatConfidence(results[i].confidence) \o <<"\n">>
         \o FormatResultsFrom(results, i + 1)

\* A formatter that reports the first alternative only.
transcribe_first_alternative(results) ==
    IF results = <<>> THEN NO_RESULTS
    ELSE FormatResultsFrom(<<results[1]>>, 1)

transcribe_audio_file(results) ==
    IF results = <<>> THEN NO_RESULTS ELSE FormatResultsFrom(results, 1)

\* A handler whose except clause ends it without closing the socket.
SttFailKeepsSocket ==
    /\ stt_pc' = "closed"
    /\ stt_sock' = stt_sock

\* The except and finally clauses of handle_client: the error is printed
\* and the socket closed; the temporary file stays as it is.
SttFail ==
    /\ stt_pc' = "closed"
    /\ stt_sock' = "closed"

\* client_socket.sendall(data) in the handler; may raise once the client
\* end is gone.
SttSendall(data, next_pc) ==
    \/ /\ stt_sent' = stt_sent \o data
       /\ stt2mic' = IF MicGone THEN stt2mic ELSE stt2mic \o data
       /\ stt_pc' = next_pc
       /\ UNCHANGED stt_sock
    \/ /\ MicGone
       /\ SttFail
       /\ UNCHANGED <<stt_sent, stt2mic>>

SttRecvHeader ==
    /\ stt_pc = "recv_header"
    /\ UNCHANGED outside_stt
    /\ \E chunk \in Recv(mic2stt, 1024, MicGone) :
          LET f == ParseFormatInfo(chunk)
          IN  /\ mic2stt' = Tail_(mic2stt, Len(chunk) + 1)
              /\ stt_format_info' = <<chunk>>
              /\ IF f.ok
                 THEN /\ stt_format' = [rate |-> f.rate,
                                        channels |-> f.channels,
                                        sample_width |-> f.sample_width]
                      /\ stt_pc' = "send_ack"
                      /\ UNCHANGED stt_sock
                 ELSE /\ SttFail
                      /\ UNCHANGED stt_format
    /\ UNCHANGED <<stt_audio_data, stt_temp_file, stt_transcription,
                   stt_results,
                   stt_sent, mic_vars, stt2mic>>

SttSendAck ==
    /\ stt_pc = "send_ack"
    /\ UNCHANGED outside_stt
    /\ SttSendall(ACK, "recv_audio")
    /\ UNCHANGED <<stt_format, stt_format_info, stt_audio_data, stt_temp_file,
                   stt_transcription, stt_results, mic_vars, mic2stt>>

\* The test that ends the receive loop: `if b"END" in chunk`, on the chunk
\* just read.
EndSeen(audio_data, chunk) == Contains(chunk, END)

\* One iteration of the receive loop.
SttRecvAudio ==
    /\ stt_pc = "recv_audio"
    /\ UNCHANGED outside_stt
    /\ \E chunk \in Recv(mic2stt, 4096, MicGone) :
          /\ mic2stt' = Tail_(mic2stt, Len(chunk) + 1)
          /\ IF EndSeen(stt_audio_data, chunk)
             THEN /\ stt_audio_data' = stt_audio_data \o Split(chunk, END)[1]
                  /\ stt_pc' = "save_file"
             ELSE IF chunk = <<>>
             THEN /\ stt_pc' = "save_file"
                  /\ UNCHANGED stt_audio_data
             ELSE /\ stt_audio_data' = stt_audio_data \o chunk
                  /\ UNCHANGED stt_pc
    /\ UNCHANGED <<stt_sock, stt_format, stt_format_info,
                   stt_temp_file, stt_transcription,
                   stt_results,
                   stt_sent, mic_vars, stt2mic>>

\* What wave.open(temp_file, 'wb') leaves on disk when a set* call raises
\* inside the with block: the file was created and nothing was written.
EmptyWaveFile ==
    [format |-> [rate |-> 0, channels |-> 0, sample_width |-> 0],
     frames |-> <<>>]

\* wave.open(temp_file, 'wb') ... writeframes(audio_data), then the file is
\* read back.  The wave module rejects a channel count below 1, a sample
\* width outside 1..4 and a frame rate below 1; the file it opened for
\* writing exists by then.
SttSaveFile ==
    /\ stt_pc = "save_file"
    /\ UNCHANGED outside_stt
    /\ IF stt_format.channels < 1 \/ stt_format.sample_width \notin 1..4
          \/ stt_format.rate < 1
       THEN /\ SttFail
            /\ stt_temp_file' = <<EmptyWaveFile>>
       ELSE /\ stt_temp_file' = << [format |-> stt_format,
                                    frames |-> stt_audio_data] >>
            /\ stt_pc' = "transcribe"
            /\ UNCHANGED stt_sock
    /\ UNCHANGED <<stt_format, stt_format_info,
                   stt_audio_data, stt_transcription,
                   stt_results, stt_sent,
                   mic_vars, chan_vars>>

\* transcription = transcribe_audio_file(audio_content, rate): the call to
\* the speech API returns alternatives, or raises.
SttTranscribe ==
    /\ stt_pc = "transcribe"
    /\ UNCHANGED outside_stt
    /\ \/ \E results \in ApiResponses :
             /\ stt_results' = <<results>>
             /\ stt_transcription' = transcribe_audio_file(results)
             /\ stt_pc' = "send_transcription"
             /\ UNCHANGED stt_sock
       \/ /\ SttFail
          /\ UNCHANGED <<stt_transcription, stt_results>>
    /\ UNCHANGED <<stt_format, stt_format_info,
                   stt_audio_data, stt_temp_file, stt_sent,
                   mic_vars, chan_vars>>

SttSendTranscription ==
    /\ stt_pc = "send_transcription"
    /\ UNCHANGED outside_stt
    /\ SttSendall(stt_transcription, "send_end")
    /\ UNCHANGED <<stt_format, stt_format_info, stt_audio_data, stt_temp_file,
                   stt_transcription, stt_results, mic_vars, mic2stt>>

SttSendEnd ==
    /\ stt_pc = "send_end"
    /\ UNCHANGED outside_stt
    /\ SttSendall(END_TRANSCRIPTION, "remove_file")
    /\ UNCHANGED <<stt_format, stt_format_info, stt_audio_data, stt_temp_file,
                   stt_transcription, stt_results, mic_vars, mic2stt>>

\* os.remove(temp_file), then the finally clause closes the socket.
SttRemoveFile ==
    /\ stt_pc = "remove_file"
    /\ UNCHANGED outside_stt
    /\ stt_temp_file' = <<>>
    /\ stt_pc' = "closed"
    /\ stt_sock' = "closed"
    /\ UNCHANGED <<stt_format, stt_format_info,
                   stt_audio_data, stt_transcription,
                   stt_results, stt_sent,
                   mic_vars, chan_vars>>

\* ------------------------------------------------------------------------
\* Text requests (spkr_client.py builds them, tts_server.py parses them)
\* ------------------------------------------------------------------------

END_REQUEST == <<"E","N","D","_","R","E","Q","U","E","S","T">>
END_AUDIO == <<"E","N","D","_","A","U","D","I","O">>
VOICE_PARAMS == <<"V","O","I","C","E","_","P","A","R","A","M","S","|","|">>
DELIM == <<"|","|">>
NL == <<"\n">>
ERROR_PREFIX == <<"E","R","R","O","R",":">>

\* An optional argument: None, or a value.
None == <<>>
Some(x) == <<x>>

\* Speaking rates are counted in thousandths.
\* float(s) succeeds, for strings over the bytes of the model: digits with
\* at most one point and at least one digit.
IsFloat(s) ==
    /\ \E i \in 1..Len(s) : IsDigit(s[i])
    /\ \A i \in 1..Len(s) : IsDigit(s[i]) \/ s[i] = "."
    /\ Cardinality({i \in 1..Len(s) : s[i] = "."}) <= 1

\* float(s), in thousandths, for a string with at most three decimals.
FloatVal(s) ==
    LET parts == SplitMax(s, <<".">>, 1)
        whole == parts[1]
        frac  == IF Len(parts) > 1 THEN parts[2] ELSE <<>>
        pad   == [i \in 1..(3 - Len(frac)) |-> "0"]
    IN  1000 * StrToInt(whole) + StrToInt(frac \o pad)

\* str(x) of a float x >= 0 given in thousandths: "0.8", "1.0", "1.25".
FloatToStr(x) ==
    LET frac == x % 1000
        d == IF frac % 100 = 0 THEN <<Digits[(frac \div 100) + 1]>>
             ELSE IF frac % 10 = 0
                  THEN <<Digits[(frac \div 100) + 1],
                         Digits[((frac \div 10) % 10) + 1]>>
                  ELSE <<Digits[(frac \div 100) + 1],
                         Digits[((frac \div 10) % 10) + 1],
                         Digits[(frac % 10) + 1]>>
    IN  IntToStr(x \div 1000) \o <<".">> \o d

\* Python truth of an optional string and of an optional float.
TruthyStr(opt) == opt # None /\ opt[1] # <<>>
TruthyRate(opt) == opt # None /\ opt[1] # 0

\* f"{voice_name or ''}" and f"{speaking_rate or ''}"
StrOrEmpty(opt) == IF TruthyStr(opt) THEN opt[1] ELSE <<>>
RateOrEmpty(opt) == IF TruthyRate(opt) THEN FloatToStr(opt[1]) ELSE <<>>

\* The condition under which the client adds the voice parameters:
\* `if voice_name or language_code or speaking_rate`.
AnySupplied(voice_name, language_code, speaking_rate) ==
    voice_name # None \/ language_code # None \/ speaking_rate # None
WantsVoiceParams(voice_name, language_code, speaking_rate) ==
    TruthyStr(voice_name) \/ TruthyStr(language_code)
        \/ TruthyRate(speaking_rate)

\* The request send_text_and_play_speech builds.
BuildRequest(text, voice_name, language_code, speaking_rate) ==
    IF WantsVoiceParams(voice_name, language_code, speaking_rate)
    THEN VOICE_PARAMS \o StrOrEmpty(voice_name) \o DELIM
             \o StrOrEmpty(language_code) \o DELIM
             \o RateOrEmpty(speaking_rate) \o DELIM \o text
    ELSE text

\* Defaults of the synthesis server
DEFAULT_VOICE ==
    <<"e","n","-","U","S","-","N","e","u","r","a","l","2","-","F">>
DEFAULT_LANGUAGE == <<"e","n","-","U","S">>
DEFAULT_RATE == 1000

\* The test for voice parameters: `if "VOICE_PARAMS||" in request_text`.
HasVoiceParams(request_text) == Contains(request_text, VOICE_PARAMS)

\* `float(parts[3]) if parts[3] else speaking_rate`, ValueError ignored.
ParseRate(field) ==
    IF field # <<>> /\ IsFloat(field) THEN FloatVal(field) ELSE DEFAULT_RATE

\* `parts[1] or voice_name`: the field, or the default when it is empty.
FieldOr(field, default) == IF field # <<>> THEN field ELSE default

\* request_text.split("||"), with no bound on the number of fields.
SplitUnbounded(request_text) == Split(request_text, DELIM)

\* request_text.split("||", 4)
SplitRequest(request_text) == SplitMax(request_text, DELIM, 4)

\* The arguments handle_client passes to synthesize_text for a request.
ParseRequest(request_text) ==
    LET parts == SplitRequest(request_text)
    IN  IF HasVoiceParams(request_text) /\ Len(parts) >= 4
        THEN [text |-> IF Len(parts) > 4 THEN parts[5] ELSE <<>>,
              voice_name |-> FieldOr(parts[2], DEFAULT_VOICE),
              language_code |-> FieldOr(parts[3], DEFAULT_LANGUAGE),
              speaking_rate |-> ParseRate(parts[4])]
        ELSE [text |-> request_text,
              voice_name |-> DEFAULT_VOICE,
              language_code |-> DEFAULT_LANGUAGE,
              speaking_rate |-> DEFAULT_RATE]

\* ------------------------------------------------------------------------
\* Speech request client (spkr_client.py)
\* ------------------------------------------------------------------------

\* Largest number of bytes of a synthesized audio.
MaxAudio == 2

TtsGone == tts_sock = "closed"
SpkGone == spk_sock \in {"closed", "reclaimed"}

\* client_socket.sendall(data) in the client; may raise once the server
\* has closed, and the exception leaves send_text_and_play_speech.
SpkSendall(data, next_pc) ==
    \/ /\ spk_sent' = spk_sent \o data
       /\ spk2tts' = IF TtsGone THEN spk2tts ELSE spk2tts \o data
       /\ spk_pc' = next_pc
       /\ UNCHANGED spk_sock
    \/ /\ TtsGone
       /\ spk_pc' = "failed"
       /\ spk_sock' = "reclaimed"
       /\ UNCHANGED <<spk_sent, spk2tts>>

SpkConnect ==
    /\ spk_pc = "connect"
    /\ UNCHANGED outside_tts
    /\ \/ \* connected: the server accepts and starts a handler
          /\ tts_pc = "listen"
          /\ spk_sock' = "open"
          /\ spk_pc' = "send_request"
          /\ tts_pc' = "recv_request"
          /\ tts_sock' = "open"
       \/ \* ConnectionRefusedError
          /\ spk_pc' = "returned"
          /\ UNCHANGED <<spk_sock, tts_pc, tts_sock>>
    /\ UNCHANGED <<spk_args, spk_size_data, spk_expected_size, spk_temp_file,
                   spk_saved, spk_played, spk_sent, spk_outcome, tts_data,
                   tts_synth_args, tts_audio_content, tts_error_msg,
                   tts_broken, tts_sent, tts_chan_vars>>

SpkSendRequest ==
    /\ spk_pc = "send_request"
    /\ UNCHANGED outside_tts
    /\ SpkSendall(BuildRequest(spk_args.text, spk_args.voice_name,
                               spk_args.language_code,
                               spk_args.speaking_rate),
                  "send_end_request")
    /\ UNCHANGED <<spk_args, spk_size_data, spk_expected_size, spk_temp_file,
                   spk_saved, spk_played, spk_outcome, tts_vars, tts2spk>>

SpkSendEndRequest ==
    /\ spk_pc = "send_end_request"
    /\ UNCHANGED outside_tts
    /\ SpkSendall(END_REQUEST, "recv_size")
    /\ UNCHANGED <<spk_args, spk_size_data, spk_expected_size, spk_temp_file,
                   spk_saved, spk_played, spk_outcome, tts_vars, tts2spk>>

\* A client that takes no reply for an error reply.
NeverErrorReply(size_str) == FALSE

\* The test for an error reply: `if size_str.startswith("ERROR:")`.
IsErrorReply(size_str) == StartsWith(size_str, ERROR_PREFIX)

\* The bytes that follow the size line:
\* `size_data.split(b'\n', 1)[1] if b'\n' in size_data else b""`.
AfterSizeLine(size_data) ==
    IF Contains(size_data, NL) THEN SplitMax(size_data, NL, 1)[2] ELSE <<>>

\* One recv of the size loop.  When the loop ends the function goes on,
\* without blocking, to test the first line and, for a length, to open the
\* temporary file and write what followed the line.
SpkRecvSize ==
    /\ spk_pc = "recv_size"
    /\ UNCHANGED outside_tts
    /\ \E chunk \in Recv(tts2spk, 1024, TtsGone) :
          LET size_data == spk_size_data \o chunk
              size_str == Split(size_data, NL)[1]
              audio_data == AfterSizeLine(size_data)
          IN  /\ tts2spk' = Tail_(tts2spk, Len(chunk) + 1)
              /\ spk_size_data' = size_data
              /\ IF chunk # <<>> /\ ~Contains(size_data, NL)
                 THEN UNCHANGED <<spk_pc, spk_sock, spk_outcome,
                                  spk_expected_size, spk_temp_file>>
                 ELSE IF IsErrorReply(size_str)
                 THEN /\ spk_outcome' = "error_reply"
                      /\ spk_sock' = "closed"
                      /\ spk_pc' = "returned"
                      /\ UNCHANGED <<spk_expected_size, spk_temp_file>>
                 ELSE IF ~IsInt(size_str)
                 THEN /\ spk_outcome' = "bad_size"
                      /\ spk_sock' = "closed"
                      /\ spk_pc' = "returned"
                      /\ UNCHANGED <<spk_expected_size, spk_temp_file>>
                 ELSE /\ spk_outcome' = "audio"
                      /\ spk_expected_size' = Some(StrToInt(size_str))
                      /\ spk_temp_file' = Some(audio_data)
                      /\ IF Contains(audio_data, END_AUDIO)
                         THEN /\ spk_sock' = "closed"
                              /\ spk_pc' = "play"
                         ELSE /\ spk_pc' = "recv_audio"
                              /\ UNCHANGED spk_sock
    /\ UNCHANGED <<spk_args, spk_saved, spk_played, spk_sent, tts_vars,
                   spk2tts>>

\* One recv of the audio loop; the loop ends at end-of-stream or with a
\* chunk that holds END_AUDIO, and the socket is closed.
SpkRecvAudio ==
    /\ spk_pc = "recv_audio"
    /\ UNCHANGED outside_tts
    /\ \E chunk \in Recv(tts2spk, 4096, TtsGone) :
          /\ tts2spk' = Tail_(tts2spk, Len(chunk) + 1)
          /\ IF chunk = <<>>
             THEN /\ spk_sock' = "closed"
                  /\ spk_pc' = "play"
                  /\ UNCHANGED spk_temp_file
             ELSE IF Contains(chunk, END_AUDIO)
             THEN /\ spk_temp_file' =
                        Some(spk_temp_file[1] \o Split(chunk, END_AUDIO)[1])
                  /\ spk_sock' = "closed"
                  /\ spk_pc' = "play"
             ELSE /\ spk_temp_file' = Some(spk_temp_file[1] \o chunk)
                  /\ UNCHANGED <<spk_sock, spk_pc>>
    /\ UNCHANGED <<spk_args, spk_size_data, spk_expected_size, spk_saved,
                   spk_played, spk_sent, spk_outcome, tts_vars, spk2tts>>

\* The rest of the function: the copy to save_file when one was given
\* (shutil.copy2 may raise, and the exception leaves the function), the
\* playback (a failure is printed) and the removal of the temporary file.
SpkPlay ==
    /\ spk_pc = "play"
    /\ UNCHANGED outside_tts
    /\ \E save_file, copy_ok, play_ok \in BOOLEAN :
          IF save_file /\ ~copy_ok
          THEN /\ spk_pc' = "failed"
               /\ UNCHANGED <<spk_saved, spk_played, spk_temp_file>>
          ELSE /\ spk_saved' = IF save_file THEN spk_temp_file ELSE spk_saved
               /\ spk_played' = IF play_ok THEN spk_temp_file ELSE spk_played
               /\ spk_temp_file' = None
               /\ spk_pc' = "returned"
    /\ UNCHANGED <<spk_sock, spk_args, spk_size_data, spk_expected_size,
                   spk_sent, spk_outcome, tts_vars, tts_chan_vars>>

\* Ctrl-C while the client waits for the reply: main() prints "Stopped by
\* user", the process ends and its socket is closed with it.
SpkInterrupt ==
    /\ spk_pc \in {"recv_size", "recv_audio"}
    /\ UNCHANGED outside_tts
    /\ spk_pc' = "interrupted"
    /\ spk_sock' = "reclaimed"
    /\ UNCHANGED <<spk_args, spk_size_data, spk_expected_size, spk_temp_file,
                   spk_saved, spk_played, spk_sent, spk_outcome, tts_vars,
                   tts_chan_vars>>

\* ------------------------------------------------------------------------
\* Synthesis server (tts_server.py)
\* ------------------------------------------------------------------------

\* The audio synthesize_text may return: up to MaxAudio bytes, and one
\* audio that holds the bytes of the sentinel.
AudioBytes == {"a", "E", "\n"}
AudioContents ==
    UNION {[1..n -> AudioBytes] : n \in 0..MaxAudio}
        \cup {<<"a">> \o END_AUDIO \o <<"a">>}

\* str(e) of what synthesize_text may raise.
ApiErrors == {<<"4","0","0">>, <<"x","\n","7">>}

\* str(e) of a failed write
BROKEN_PIPE ==
    <<"[","E","r","r","n","o"," ","3","2","]"," ","B","r","o","k","e","n",
      " ","p","i","p","e">>

\* f"Error synthesizing speech: {str(e)}"
ErrorMsg(e) ==
    <<"E","r","r","o","r"," ","s","y","n","t","h","e","s","i","z","i","n",
      "g"," ","s","p","e","e","c","h",":"," ">> \o e

\* The except and finally clauses of handle_client.
TtsFail ==
    /\ tts_pc' = "closed"
    /\ tts_sock' = "closed"

\* client_socket.sendall(data) in the handler.  A write may fail once the
\* client end is gone; after one has failed every later one fails.
TtsSendall(data, next_pc, fail_pc) ==
    \/ /\ ~tts_broken
       /\ tts_sent' = tts_sent \o data
       /\ tts2spk' = IF SpkGone THEN tts2spk ELSE tts2spk \o data
       /\ tts_pc' = next_pc
       /\ tts_sock' = IF next_pc = "closed" THEN "closed" ELSE tts_sock
       /\ UNCHANGED <<tts_broken, tts_error_msg>>
    \/ /\ SpkGone
       /\ tts_broken' = TRUE
       /\ tts_pc' = fail_pc
       /\ tts_sock' = IF fail_pc = "closed" THEN "closed" ELSE tts_sock
       /\ tts_error_msg' = IF fail_pc = "send_error" THEN ErrorMsg(BROKEN_PIPE)
                           ELSE tts_error_msg
       /\ UNCHANGED <<tts_sent, tts2spk>>

\* The test that ends the request loop: `if b"END_REQUEST" in chunk`.
EndRequestSeen(data, chunk) == Contains(chunk, END_REQUEST)

\* One recv of the request loop; when the loop ends the request is decoded
\* and its voice parameters are parsed.
TtsRecvRequest ==
    /\ tts_pc = "recv_request"
    /\ UNCHANGED outside_tts
    /\ \E chunk \in Recv(spk2tts, 4096, SpkGone) :
          /\ spk2tts' = Tail_(spk2tts, Len(chunk) + 1)
          /\ IF EndRequestSeen(tts_data, chunk)
             THEN /\ tts_data' = tts_data \o Split(chunk, END_REQUEST)[1]
                  /\ tts_pc' = "synthesize"
             ELSE IF chunk = <<>>
             THEN /\ tts_pc' = "synthesize"
                  /\ UNCHANGED tts_data
             ELSE /\ tts_data' = tts_data \o chunk
                  /\ UNCHANGED tts_pc
    /\ UNCHANGED <<tts_sock, tts_synth_args, tts_audio_content,
                   tts_error_msg, tts_broken, tts_sent, spk_vars, tts2spk>>

\* audio_content = synthesize_text(request_text, ...): the speech API
\* returns audio, or raises.
TtsSynthesize ==
    /\ tts_pc = "synthesize"
    /\ UNCHANGED outside_tts
    /\ tts_synth_args' = Some(ParseRequest(tts_data))
    /\ \/ \E audio \in AudioContents :
             /\ tts_audio_content' = audio
             /\ tts_pc' = "send_size"
             /\ UNCHANGED tts_error_msg
       \/ \E e \in ApiErrors :
             /\ tts_error_msg' = ErrorMsg(e)
             /\ tts_pc' = "send_error"
             /\ UNCHANGED tts_audio_content
    /\ UNCHANGED <<tts_sock, tts_data, tts_broken, tts_sent, spk_vars,
                   tts_chan_vars>>

\* client_socket.sendall(f"{audio_size}\n".encode('utf-8'))
TtsSendSize ==
    /\ tts_pc = "send_size"
    /\ UNCHANGED outside_tts
    /\ TtsSendall(IntToStr(Len(tts_audio_content)) \o NL, "send_audio",
                  "send_error")
    /\ UNCHANGED <<tts_data, tts_synth_args, tts_audio_content, spk_vars,
                   spk2tts>>

TtsSendAudio ==
    /\ tts_pc = "send_audio"
    /\ UNCHANGED outside_tts
    /\ TtsSendall(tts_audio_content, "send_end_audio", "send_error")
    /\ UNCHANGED <<tts_data, tts_synth_args, tts_audio_content, spk_vars,
                   spk2tts>>

\* The last write of the reply; the finally clause then closes the socket.
TtsSendEndAudio ==
    /\ tts_pc = "send_end_audio"
    /\ UNCHANGED outside_tts
    /\ TtsSendall(END_AUDIO, "closed", "send_error")
    /\ UNCHANGED <<tts_data, tts_synth_args, tts_audio_content, spk_vars,
                   spk2tts>>

\* The except clause of the synthesis block:
\* client_socket.sendall(f"ERROR: {error_msg}".encode('utf-8')); whether
\* the write succeeds or raises, the socket is closed next.
TtsSendError ==
    /\ tts_pc = "send_error"
    /\ UNCHANGED outside_tts
    /\ TtsSendall(ERROR_PREFIX \o <<" ">> \o tts_error_msg, "closed",
                  "closed")
    /\ UNCHANGED <<tts_data, tts_synth_args, tts_audio_content, spk_vars,
                   spk2tts>>

\* Ctrl-C stops the server while a handler runs: start_server prints
\* "Server stopped by user" and returns, the daemon thread of the handler
\* ends with the process and its socket is closed with it.
TtsServerStopped ==
    /\ tts_pc \in {"recv_request", "synthesize", "send_size", "send_audio",
                   "send_end_audio", "send_error"}
    /\ UNCHANGED outside_tts
    /\ tts_pc' = "stopped"
    /\ tts_sock' = "closed"
    /\ UNCHANGED <<tts_data, tts_synth_args, tts_audio_content,
                   tts_error_msg, tts_broken, tts_sent, spk_vars,
                   tts_chan_vars>>

\* ------------------------------------------------------------------------
\* The transcription exchange: one client, one connection
\* ------------------------------------------------------------------------

MicInit ==
    /\ mic_pc = "connect"
    /\ mic_sock = "none"
    /\ mic_duration \in Durations
    /\ mic_ack = <<>>
    /\ mic_frames = <<>>
    /\ mic_transcription_data = <<>>
    /\ mic_sent = <<>>
    /\ mic_local_file = <<>>
    /\ mic_printed = <<>>

SttInit ==
    /\ stt_pc \in {"listen", "down"}
    /\ stt_sock = "none"
    /\ stt_format_info = <<>>
    /\ stt_format = [rate |-> 0, channels |-> 0, sample_width |-> 0]
    /\ stt_audio_data = <<>>
    /\ stt_temp_file = <<>>
    /\ stt_transcription = <<>>
    /\ stt_results = None
    /\ stt_sent = <<>>

\* No other client of the synthesis server.
NoRequest == [kind |-> "plain", voice |-> <<>>, language |-> <<>>,
              rate |-> [str |-> <<>>, expected |-> DEFAULT_RATE],
              text |-> <<>>]
AnyIdle ==
    /\ any_pc = "idle"
    /\ any_req = NoRequest

\* Largest number of connections a server accepts.
MaxConns == 2

ConnIds == 1..MaxConns

\* A connection slot not yet used.
NoConn ==
    [pc |-> "free", client_socket |-> "none", client_address |-> <<>>,
     client |-> "none", payload |-> <<>>, to_server |-> <<>>,
     received |-> <<>>, sent |-> <<>>, broken |-> FALSE, raised |-> FALSE,
     calls |-> 0, after_failure |-> FALSE,
     format |-> [rate |-> 0, channels |-> 0, sample_width |-> 0],
     audio_data |-> <<>>, audio_content |-> None, transcription |-> <<>>,
     data |-> <<>>, synth_args |-> None, error_msg |-> <<>>]

\* No relay server with several connections.
SrvIdle ==
    /\ srv_kind = "none"
    /\ srv_listening = FALSE
    /\ srv_api = <<>>
    /\ srv_files = <<>>
    /\ conns = [c \in ConnIds |-> NoConn]

\* No interactive session.
IntIdle ==
    /\ int_pc = "idle"
    /\ int_voice_name = DEFAULT_VOICE
    /\ int_language_code = DEFAULT_LANGUAGE
    /\ int_speaking_rate = DEFAULT_RATE
    /\ int_save_file = None
    /\ int_lines = 0
    /\ int_last = None
    /\ int_text = None
    /\ int_printed = <<>>

\* The programs of the synthesis exchange, not started.
SpkIdle ==
    /\ spk_pc = "idle"
    /\ spk_sock = "none"
    /\ spk_args = [text |-> <<>>, voice_name |-> None,
                   language_code |-> None, speaking_rate |-> None]
    /\ spk_size_data = <<>>
    /\ spk_expected_size = None
    /\ spk_temp_file = None
    /\ spk_saved = None
    /\ spk_played = None
    /\ spk_sent = <<>>
    /\ spk_outcome = "none"

\* No connection handled yet.
TtsFresh ==
    /\ tts_sock = "none"
    /\ tts_data = <<>>
    /\ tts_synth_args = None
    /\ tts_audio_content = <<>>
    /\ tts_error_msg = <<>>
    /\ tts_broken = FALSE
    /\ tts_sent = <<>>

TtsIdle ==
    /\ tts_pc = "down"
    /\ TtsFresh

Init ==
    /\ MicInit
    /\ SttInit
    /\ mic2stt = <<>>
    /\ stt2mic = <<>>
    /\ SpkIdle
    /\ TtsIdle
    /\ spk2tts = <<>>
    /\ tts2spk = <<>>
    /\ AnyIdle
    /\ IntIdle
    /\ SrvIdle

MicStep ==
    \/ MicConnect
    \/ MicSendHeader
    \/ MicRecvAck
    \/ MicRecordChunk
    \/ MicSendEnd
    \/ MicRecvTranscription
    \/ MicSocketDropped

SttStep ==
    \/ SttRecvHeader
    \/ SttSendAck
    \/ SttRecvAudio
    \/ SttSaveFile
    \/ SttTranscribe
    \/ SttSendTranscription
    \/ SttSendEnd
    \/ SttRemoveFile

Next ==
    \/ MicStep
    \/ SttStep
    \/ MicInterrupt

Spec == Init /\ [][Next]_vars

\* ------------------------------------------------------------------------
\* The header path of the transcription server: a client that differs from
\* record_and_send only in the first message it writes
\* ------------------------------------------------------------------------

\* First messages: the header of record_and_send, headers of two and of
\* four fields, with a field that is no integer, with an empty field, and
\* headers of three integers whose last field has one or two digits.
Headers ==
    {FormatInfo,
     <<"1", ",", "2">>,
     <<"1", ",", "1", ",", "2", ",", "3">>,
     <<"x", ",", "1", ",", "2">>,
     <<"1", ",", ",", "2">>,
     <<"1", ",", "1", ",", "9">>,
     <<"1", ",", "1", ",", "1", "6">>}

\* The client writes its first message.
AnySendHeader ==
    /\ mic_pc = "send_header"
    /\ UNCHANGED outside_stt
    /\ \E header \in Headers : MicSendall(header, "wait_ack")
    /\ UNCHANGED <<mic_duration, mic_ack, mic_frames,
                   mic_transcription_data, mic_local_file, mic_printed,
                   stt_vars, stt2mic>>

NextHeader ==
    \/ MicConnect
    \/ AnySendHeader
    \/ MicRecvAck
    \/ MicRecordChunk
    \/ MicSendEnd
    \/ MicRecvTranscription
    \/ MicSocketDropped
    \/ MicInterrupt
    \/ SttStep

SpecHeader == Init /\ [][NextHeader]_vars

\* ------------------------------------------------------------------------
\* The synthesis exchange: one client, one connection
\* ------------------------------------------------------------------------

\* The programs of the transcription exchange, not started.
MicIdle ==
    /\ mic_pc = "idle"
    /\ mic_sock = "none"
    /\ mic_duration = 0
    /\ mic_ack = <<>>
    /\ mic_frames = <<>>
    /\ mic_transcription_data = <<>>
    /\ mic_sent = <<>>
    /\ mic_local_file = <<>>
    /\ mic_printed = <<>>

SttIdle ==
    /\ stt_pc = "down"
    /\ stt_sock = "none"
    /\ stt_format_info = <<>>
    /\ stt_format = [rate |-> 0, channels |-> 0, sample_width |-> 0]
    /\ stt_audio_data = <<>>
    /\ stt_temp_file = <<>>
    /\ stt_transcription = <<>>
    /\ stt_results = None
    /\ stt_sent = <<>>

\* Arguments of send_text_and_play_speech (main's --text, --voice,
\* --language, --rate); rates in thousandths.
SpkTexts == {<<"h","i">>}
SpkVoices == {None, Some(<<>>), Some(<<"M">>)}
SpkLanguages == {None, Some(<<"f","r">>)}
SpkRates == {None, Some(0), Some(800)}

SpkInit ==
    /\ spk_pc = "connect"
    /\ spk_sock = "none"
    /\ spk_args \in [text : SpkTexts, voice_name : SpkVoices,
                      language_code : SpkLanguages, speaking_rate : SpkRates]
    /\ spk_size_data = <<>>
    /\ spk_expected_size = None
    /\ spk_temp_file = None
    /\ spk_saved = None
    /\ spk_played = None
    /\ spk_sent = <<>>
    /\ spk_outcome = "none"

TtsInit ==
    /\ tts_pc \in {"listen", "down"}
    /\ TtsFresh

InitTts ==
    /\ SpkInit
    /\ TtsInit
    /\ spk2tts = <<>>
    /\ tts2spk = <<>>
    /\ MicIdle
    /\ SttIdle
    /\ mic2stt = <<>>
    /\ stt2mic = <<>>
    /\ AnyIdle
    /\ IntIdle
    /\ SrvIdle

SpkStep ==
    \/ SpkConnect
    \/ SpkSendRequest
    \/ SpkSendEndRequest
    \/ SpkRecvSize
    \/ SpkRecvAudio
    \/ SpkPlay

TtsStep ==
    \/ TtsRecvRequest
    \/ TtsSynthesize
    \/ TtsSendSize
    \/ TtsSendAudio
    \/ TtsSendEndAudio
    \/ TtsSendError

NextTts ==
    \/ SpkStep
    \/ TtsStep
    \/ SpkInterrupt
    \/ TtsServerStopped

SpecTts == InitTts /\ [][NextTts]_vars

\* ------------------------------------------------------------------------
\* The request path of the synthesis server: any client writes a request,
\* plain or with voice parameters; the handler receives it, parses it and
\* calls synthesize_text
\* ------------------------------------------------------------------------

\* Largest number of pieces a request text is made of.
MaxPieces == 3

TextPieces == {<<"a">>, DELIM, VOICE_PARAMS}

RECURSIVE TextsOf(_)
TextsOf(n) ==
    IF n = 0 THEN {<<>>}
    ELSE LET shorter == TextsOf(n - 1)
         IN  shorter \cup {t \o piece : t \in shorter, piece \in TextPieces}

\* Texts of plain requests, and the shorter texts of extended requests.
Texts == TextsOf(MaxPieces)
ExtendedTexts == TextsOf(MaxPieces - 1)

\* The fields of an extended request, as written on the wire; with each
\* rate field the rate the server is to pass on, in thousandths.
RawVoices == {<<>>, <<"M">>}
RawLanguages == {<<>>, <<"f","r">>}
RawRates ==
    { [str |-> <<>>, expected |-> 1000],
      [str |-> <<"0",".","8">>, expected |-> 800],
      [str |-> <<"0">>, expected |-> 0],
      [str |-> <<"x">>, expected |-> 1000] }

RawRequests ==
    {[NoRequest EXCEPT !.text = t] : t \in Texts}
        \cup [kind : {"extended"}, voice : RawVoices,
              language : RawLanguages, rate : RawRates,
              text : ExtendedTexts]

\* The request text of a request.
RawRequest(req) ==
    IF req.kind = "plain" THEN req.text
    ELSE VOICE_PARAMS \o req.voice \o DELIM \o req.language \o DELIM
             \o req.rate.str \o DELIM \o req.text

\* The client connects and writes its request and END_REQUEST.
AnySendRequest ==
    /\ any_pc = "start"
    /\ tts_pc = "listen"
    /\ any_pc' = "sent"
    /\ tts_pc' = "recv_request"
    /\ tts_sock' = "open"
    /\ spk2tts' = spk2tts \o RawRequest(any_req) \o END_REQUEST
    /\ UNCHANGED <<any_req, tts_data, tts_synth_args, tts_audio_content,
                   tts_error_msg, tts_broken, tts_sent, tts2spk, spk_vars,
                   stt_exchange, int_vars, srv_vars>>

InitRequest ==
    /\ any_pc = "start"
    /\ any_req \in RawRequests
    /\ tts_pc = "listen"
    /\ TtsFresh
    /\ SpkIdle
    /\ spk2tts = <<>>
    /\ tts2spk = <<>>
    /\ MicIdle
    /\ SttIdle
    /\ mic2stt = <<>>
    /\ stt2mic = <<>>
    /\ IntIdle
    /\ SrvIdle

NextRequest ==
    \/ AnySendRequest
    \/ TtsRecvRequest
    \/ TtsSynthesize

SpecRequest == InitRequest /\ [][NextRequest]_vars

\* ------------------------------------------------------------------------
\* The reply path of the speech request client: the server it connected to
\* writes a reply of the success shape, length line, audio and END_AUDIO,
\* whose declared length may be right or wrong, and closes
\* ------------------------------------------------------------------------

\* The audio of the replies: free of the sentinel.
ReplyAudios == {a \in AudioContents : ~Contains(a, END_AUDIO)}

\* The lengths a reply may declare for an audio: the right one, one more,
\* one less.
DeclaredLengths(audio) ==
    {n \in {Len(audio) - 1, Len(audio), Len(audio) + 1} : n >= 0}

\* The server writes its whole reply and closes; what the client had
\* written and the server had not read is dropped.
AnyServerReplies ==
    /\ tts_pc = "recv_request"
    /\ UNCHANGED outside_tts
    /\ \E audio \in ReplyAudios :
          \E declared \in DeclaredLengths(audio) :
             LET reply == IntToStr(declared) \o NL \o audio \o END_AUDIO
             IN  /\ tts_audio_content' = Some(audio)
                 /\ tts_sent' = reply
                 /\ tts2spk' = IF SpkGone THEN tts2spk ELSE tts2spk \o reply
    /\ tts_pc' = "closed"
    /\ tts_sock' = "closed"
    /\ spk2tts' = <<>>
    /\ UNCHANGED <<tts_data, tts_synth_args, tts_error_msg, tts_broken,
                   spk_vars>>

NextReply ==
    \/ SpkStep
    \/ SpkInterrupt
    \/ AnyServerReplies

SpecReply == InitTts /\ [][NextReply]_vars

\* ------------------------------------------------------------------------
\* The interactive session of the speech request client (interactive_mode)
\* ------------------------------------------------------------------------

\* Largest number of lines a session reads.
MaxLines == 3

\* The lines input() may return.
InputLines ==
    { <<>>,
      <<"h","i">>,
      <<"/","v","o","i","c","e"," ","M">>,
      <<"/","v","o","i","c","e">>,
      <<"/","v","o","i","c","e"," ">>,
      <<"/","l","a","n","g">>,
      <<"/","L","a","n","g"," ","f","r">>,
      <<"/","r","a","t","e"," ","0",".","8">>,
      <<"/","r","a","t","e"," ","0">>,
      <<"/","r","a","t","e"," ","x">>,
      <<"/","s","a","v","e"," ","f">>,
      <<"/","s","a","v","e">>,
      <<"/","i","n","f","o">>,
      <<"/","e","x","i","t">>,
      <<"/","Q","U","I","T">>,
      <<"/","x">> }

UpperCase == <<"A","B","C","D","E","F","G","H","I","J","K","L","M","N","O","P","Q","R","S","T","U","V","W","X","Y","Z">>
LowerCase == <<"a","b","c","d","e","f","g","h","i","j","k","l","m","n","o","p","q","r","s","t","u","v","w","x","y","z">>

\* str.lower(), byte by byte.
LowerChar(c) ==
    IF \E i \in 1..Len(UpperCase) : UpperCase[i] = c
    THEN LowerCase[CHOOSE i \in 1..Len(UpperCase) : UpperCase[i] = c]
    ELSE c
Lower(s) == [i \in 1..Len(s) |-> LowerChar(s[i])]

IsSpace(c) == c = " "

\* s without its leading whitespace.
RECURSIVE LStrip(_)
LStrip(s) ==
    IF s # <<>> /\ IsSpace(s[1]) THEN LStrip(Tail(s)) ELSE s

\* A split that yields a second part whenever whitespace follows the first
\* word, an empty one included.
SplitFirstKeepsEmpty(text) ==
    LET s == LStrip(text)
        stops == {i \in 1..Len(s) : IsSpace(s[i])}
        n == IF stops = {} THEN Len(s)
             ELSE (CHOOSE i \in stops : \A j \in stops : i <= j) - 1
    IN  IF s = <<>> THEN <<>>
        ELSE IF stops = {} THEN <<s>>
        ELSE <<SubSeq(s, 1, n), LStrip(Tail_(s, n + 1))>>

\* text.split(maxsplit=1): the first word, and what follows the whitespace
\* after it when anything does.
SplitFirst(text) ==
    LET s == LStrip(text)
        stops == {i \in 1..Len(s) : IsSpace(s[i])}
        n == IF stops = {} THEN Len(s)
             ELSE (CHOOSE i \in stops : \A j \in stops : i <= j) - 1
        rest == LStrip(Tail_(s, n + 1))
    IN  IF s = <<>> THEN <<>>
        ELSE IF rest = <<>> THEN <<SubSeq(s, 1, n)>>
        ELSE <<SubSeq(s, 1, n), rest>>

CMD_EXIT == <<"/","e","x","i","t">>
CMD_QUIT == <<"/","q","u","i","t">>
CMD_VOICE == <<"/","v","o","i","c","e">>
CMD_LANG == <<"/","l","a","n","g">>
CMD_RATE == <<"/","r","a","t","e">>
CMD_SAVE == <<"/","s","a","v","e">>
CMD_INFO == <<"/","i","n","f","o">>

\* What the command block prints, by the print statement reached (the
\* values it interpolates left out).
CommandPrints(cmd, cmd_parts) ==
    LET has_arg == Len(cmd_parts) > 1
    IN  IF cmd \in {CMD_EXIT, CMD_QUIT} THEN <<>>
        ELSE IF cmd = CMD_VOICE /\ has_arg THEN <<"Voice set to">>
        ELSE IF cmd = CMD_LANG /\ has_arg THEN <<"Language set to">>
        ELSE IF cmd = CMD_RATE /\ has_arg
        THEN IF IsFloat(cmd_parts[2])
             THEN <<"Speaking rate set to">>
             ELSE <<"Error: Rate must be a number">>
        ELSE IF cmd = CMD_SAVE /\ has_arg
        THEN <<"Next audio will be saved to">>
        ELSE IF cmd = CMD_INFO THEN <<"Current settings">>
        ELSE <<"Unknown command">>

\* How a call of send_text_and_play_speech ends: it returns (after playing,
\* after a refused connection, after an error reply or after a length that
\* is no number), it raises an exception (a send or recv on a connection
\* the server reset, the copy to the save path), or Ctrl-C stops it.
SendOutcomes ==
    {"played", "refused", "error_reply", "bad_size", "raised",
     "keyboard_interrupt"}
SendReturns(outcome) ==
    outcome \in {"played", "refused", "error_reply", "bad_size"}

\* The session starts with its defaults.
IntInit ==
    /\ int_pc = "prompt"
    /\ int_voice_name = DEFAULT_VOICE
    /\ int_language_code = DEFAULT_LANGUAGE
    /\ int_speaking_rate = DEFAULT_RATE
    /\ int_save_file = None
    /\ int_lines = 0
    /\ int_last = None
    /\ int_text = None
    /\ int_printed = <<>>

\* A command turn in which a /rate argument that is no number puts the
\* speaking rate back to the default.
IntCommandRateResets ==
    /\ int_pc = "prompt"
    /\ int_lines < MaxLines
    /\ \E text \in InputLines :
          /\ StartsWith(text, <<"/">>)
          /\ int_text' = Some(text)
          /\ LET cmd_parts == SplitFirst(text)
                 cmd == Lower(cmd_parts[1])
                 has_arg == Len(cmd_parts) > 1
             IN  /\ int_pc' = IF cmd \in {CMD_EXIT, CMD_QUIT}
                              THEN "exited" ELSE "prompt"
                 /\ int_voice_name' =
                        IF cmd = CMD_VOICE /\ has_arg
                        THEN cmd_parts[2] ELSE int_voice_name
                 /\ int_language_code' =
                        IF cmd = CMD_LANG /\ has_arg
                        THEN cmd_parts[2] ELSE int_language_code
                 /\ int_speaking_rate' =
                        IF cmd = CMD_RATE /\ has_arg
                        THEN IF IsFloat(cmd_parts[2])
                             THEN FloatVal(cmd_parts[2]) ELSE DEFAULT_RATE
                        ELSE int_speaking_rate
                 /\ int_save_file' =
                        IF cmd = CMD_SAVE /\ has_arg
                        THEN Some(cmd_parts[2]) ELSE int_save_file
                 /\ int_printed' = CommandPrints(cmd, cmd_parts)
    /\ int_lines' = int_lines + 1
    /\ int_last' = None
    /\ UNCHANGED outside_int

\* One turn of the loop on a line that starts with "/".
IntCommand ==
    /\ int_pc = "prompt"
    /\ int_lines < MaxLines
    /\ \E text \in InputLines :
          /\ StartsWith(text, <<"/">>)
          /\ int_text' = Some(text)
          /\ LET cmd_parts == SplitFirst(text)
                 cmd == Lower(cmd_parts[1])
                 has_arg == Len(cmd_parts) > 1
             IN  /\ int_pc' = IF cmd \in {CMD_EXIT, CMD_QUIT}
                              THEN "exited" ELSE "prompt"
                 /\ int_voice_name' =
                        IF cmd = CMD_VOICE /\ has_arg
                        THEN cmd_parts[2] ELSE int_voice_name
                 /\ int_language_code' =
                        IF cmd = CMD_LANG /\ has_arg
                        THEN cmd_parts[2] ELSE int_language_code
                 /\ int_speaking_rate' =
                        IF cmd = CMD_RATE /\ has_arg /\ IsFloat(cmd_parts[2])
                        THEN FloatVal(cmd_parts[2]) ELSE int_speaking_rate
                 /\ int_save_file' =
                        IF cmd = CMD_SAVE /\ has_arg
                        THEN Some(cmd_parts[2]) ELSE int_save_file
                 /\ int_printed' = CommandPrints(cmd, cmd_parts)
    /\ int_lines' = int_lines + 1
    /\ int_last' = None
    /\ UNCHANGED outside_int

\* One turn of the loop on an empty line.
IntEmptyLine ==
    /\ int_pc = "prompt"
    /\ int_lines < MaxLines
    /\ <<>> \in InputLines
    /\ int_text' = Some(<<>>)
    /\ int_printed' = <<>>
    /\ int_lines' = int_lines + 1
    /\ int_last' = None
    /\ UNCHANGED <<int_pc, int_voice_name, int_language_code,
                   int_speaking_rate, int_save_file>>
    /\ UNCHANGED outside_int

\* One turn of the loop on a text line: the call of
\* send_text_and_play_speech with the session's settings and, when the call
\* returns, the reset of save_file; an exception is printed and the loop
\* goes on, Ctrl-C ends the session.
IntSpeak ==
    /\ int_pc = "prompt"
    /\ int_lines < MaxLines
    /\ \E text \in InputLines, outcome \in SendOutcomes :
          /\ text # <<>>
          /\ ~StartsWith(text, <<"/">>)
          /\ int_text' = Some(text)
          /\ int_last' = Some([text |-> text,
                               voice_name |-> int_voice_name,
                               language_code |-> int_language_code,
                               speaking_rate |-> int_speaking_rate,
                               save_file |-> int_save_file,
                               outcome |-> outcome])
          /\ int_save_file' = IF SendReturns(outcome) /\ int_save_file # None
                              THEN None ELSE int_save_file
          /\ int_pc' = IF outcome = "keyboard_interrupt"
                       THEN "exited" ELSE "prompt"
          /\ int_printed' =
                 IF outcome = "keyboard_interrupt" THEN <<"Exiting...">>
                 ELSE IF outcome = "raised" THEN <<"Error">>
                 ELSE IF int_save_file # None THEN <<"Audio saved to">>
                 ELSE <<>>
    /\ int_lines' = int_lines + 1
    /\ UNCHANGED <<int_voice_name, int_language_code, int_speaking_rate>>
    /\ UNCHANGED outside_int

\* Ctrl-C at the prompt.
IntKeyboardInterrupt ==
    /\ int_pc = "prompt"
    /\ int_pc' = "exited"
    /\ int_last' = None
    /\ int_printed' = <<"Exiting...">>
    /\ UNCHANGED <<int_voice_name, int_language_code, int_speaking_rate,
                   int_save_file, int_lines, int_text>>
    /\ UNCHANGED outside_int

InitInteractive ==
    /\ IntInit
    /\ SpkIdle
    /\ TtsIdle
    /\ spk2tts = <<>>
    /\ tts2spk = <<>>
    /\ MicIdle
    /\ SttIdle
    /\ mic2stt = <<>>
    /\ stt2mic = <<>>
    /\ AnyIdle
    /\ SrvIdle

NextInteractive ==
    \/ IntCommand
    \/ IntEmptyLine
    \/ IntSpeak
    \/ IntKeyboardInterrupt

SpecInteractive == InitInteractive /\ [][NextInteractive]_vars

\* ------------------------------------------------------------------------
\* A relay server with several connections (start_server of stt_server.py
\* or tts_server.py, one handle_client thread per accepted connection)
\* ------------------------------------------------------------------------

\* Peer addresses (ip, port) the server may see: one for each connection.
PeerAddresses == {<<"h", IntToStr(i)>> : i \in ConnIds}

\* temp_file = f"received_{client_address[0]}_{client_address[1]}.wav"
TempFile(client_address) ==
    <<"received", client_address[1], client_address[2], "wav">>

FileNames == {TempFile(a) : a \in PeerAddresses}

\* What the clients send: recordings to the transcription server, text
\* requests to the synthesis server.
Recordings == {<<"a">>, <<"b">>}
Requests == {<<"h">>, <<"y">>}

Payloads(kind) == IF kind = "stt" THEN Recordings ELSE Requests

\* The synthesis capability as a fixed function of the arguments of
\* synthesize_text: for each, the audio it returns or the error it raises.
SynthResults ==
    {[ok |-> TRUE, value |-> <<"a">>],
     [ok |-> FALSE, value |-> <<"4","0","0">>]}
SynthFunctions == [{ParseRequest(r) : r \in Requests} -> SynthResults]

\* synthesize_text(request_text, voice_name, language_code, speaking_rate)
SynthesizeText(args) ==
    IF args \in DOMAIN srv_api THEN srv_api[args]
    ELSE [ok |-> FALSE, value |-> <<"4","0","0">>]

\* The server has started and listens; nothing is connected.
ServerInit ==
    /\ srv_kind \in {"stt", "tts"}
    /\ srv_listening = TRUE
    /\ srv_api \in (IF srv_kind = "tts" THEN SynthFunctions ELSE {<<>>})
    /\ srv_files = [n \in FileNames |-> None]
    /\ conns = [c \in ConnIds |-> NoConn]

\* A server that runs each handler inside the accept loop: a handler runs
\* only when no earlier connection is still being handled.
RunningInTurn(c) ==
    /\ conns[c].pc \notin {"free", "closed", "stopped"}
    /\ \A d \in ConnIds :
          d < c => conns[d].pc \in {"free", "closed", "stopped"}

\* The handler thread of a connection runs.
Running(c) == conns[c].pc \notin {"free", "closed", "stopped"}

\* A handler whose except clause returns without closing its socket.
HandlerFailKeepsSocket(conn) ==
    [conn EXCEPT !.pc = "closed", !.to_server = <<>>, !.raised = TRUE]

\* The except and finally clauses of handle_client, on a connection record;
\* what the closed socket had not read is dropped.
HandlerFail(conn) ==
    [conn EXCEPT !.pc = "closed", !.client_socket = "closed",
                 !.to_server = <<>>, !.raised = TRUE]

\* A handler that serves the next request on the same connection instead
\* of ending.
HandlerKeepAlive(conn) ==
    [conn EXCEPT !.pc = IF srv_kind = "stt" THEN "recv_header"
                        ELSE "recv_request"]

\* The end of handle_client on the normal path: the finally clause.
HandlerDone(conn) ==
    [conn EXCEPT !.pc = "closed", !.client_socket = "closed",
                 !.to_server = <<>>]

\* client_socket.sendall(data) in a handler: the connection records it may
\* lead to.  The write may raise once the client end is gone, and every
\* write after a failed one fails.
HandlerSendall(conn, data, next, failed) ==
    (IF conn.broken THEN {}
     ELSE {[next EXCEPT !.sent = @ \o data,
                        !.received = IF conn.client = "gone" THEN @
                                     ELSE @ \o data]})
        \cup (IF conn.client = "gone"
              THEN {[failed EXCEPT !.broken = TRUE]} ELSE {})

\* The peer addresses of the connections so far, and the address the next
\* new peer has (which of the unseen addresses it is makes no difference).
SeenAddresses == {conns[d].client_address : d \in ConnIds} \ {<<>>}
NextAddress == <<"h", IntToStr(Cardinality(SeenAddresses) + 1)>>

\* A client connects; server_socket.accept() returns and the accept loop
\* starts a handler thread for the connection.  A peer address is seen
\* again only when the earlier connection from it is gone at the peer.
Accept(c) ==
    /\ srv_listening
    /\ conns[c].pc = "free"
    /\ \A d \in ConnIds : d < c => conns[d].pc # "free"
    /\ \E addr \in PeerAddresses, payload \in Payloads(srv_kind) :
          /\ \A d \in ConnIds :
                conns[d].client_address = addr => conns[d].client = "gone"
          /\ addr \in SeenAddresses \cup {NextAddress}
          /\ conns' = [conns EXCEPT ![c] =
                [NoConn EXCEPT
                    !.pc = IF srv_kind = "stt" THEN "recv_header"
                           ELSE "recv_request",
                    !.client_socket = "open",
                    !.client_address = addr,
                    !.client = "start",
                    !.payload = payload,
                    !.after_failure = \E d \in ConnIds : conns[d].raised]]
    /\ UNCHANGED <<srv_kind, srv_listening, srv_api, srv_files>>
    /\ UNCHANGED outside_srv

\* Bytes a client writes reach the handler's socket while it is open.
ClientWrites(conn, data) ==
    IF conn.client_socket = "open" THEN conn.to_server \o data
    ELSE conn.to_server

\* The client's first write: the format header (record_and_send), or the
\* request and END_REQUEST (send_text_and_play_speech).
ClientSend(c) ==
    /\ conns[c].client = "start"
    /\ conns' = [conns EXCEPT ![c] =
          IF srv_kind = "stt"
          THEN [@ EXCEPT !.to_server = ClientWrites(conns[c], FormatInfo),
                         !.client = "await_ack"]
          ELSE [@ EXCEPT !.to_server =
                             ClientWrites(conns[c],
                                          conns[c].payload \o END_REQUEST),
                         !.client = "await_reply"]]
    /\ UNCHANGED <<srv_kind, srv_listening, srv_api, srv_files>>
    /\ UNCHANGED outside_srv

\* record_and_send after the acknowledgment: the recording, then END.
ClientAfterAck(c) ==
    /\ conns[c].client = "await_ack"
    /\ AckAccepted(conns[c].received)
    /\ conns' = [conns EXCEPT ![c] =
          [@ EXCEPT !.to_server =
                        ClientWrites(conns[c], conns[c].payload \o END),
                    !.client = "await_reply"]]
    /\ UNCHANGED <<srv_kind, srv_listening, srv_api, srv_files>>
    /\ UNCHANGED outside_srv

\* The client end of the connection goes: the client has read its reply
\* and closes, gives up, or is stopped.
ClientLeaves(c) ==
    /\ conns[c].client \in {"start", "await_ack", "await_reply"}
    /\ conns' = [conns EXCEPT ![c].client = "gone"]
    /\ UNCHANGED <<srv_kind, srv_listening, srv_api, srv_files>>
    /\ UNCHANGED outside_srv

\* Ctrl-C stops the server: the accept loop ends (except KeyboardInterrupt,
\* finally server_socket.close()) and the daemon handler threads end with
\* the process, their sockets closed with it and what they held gone.
ServerStopped ==
    /\ srv_listening
    /\ srv_listening' = FALSE
    /\ conns' = [c \in ConnIds |->
                    IF Running(c)
                    THEN [NoConn EXCEPT
                             !.pc = "stopped",
                             !.client_socket = "closed",
                             !.client_address = conns[c].client_address,
                             !.client = conns[c].client]
                    ELSE conns[c]]
    /\ UNCHANGED <<srv_kind, srv_api, srv_files>>
    /\ UNCHANGED outside_srv

\* A step of the handler of connection c that touches only its own record.
HandlerStep(c, outcomes) ==
    /\ Running(c)
    /\ \E next \in outcomes : conns' = [conns EXCEPT ![c] = next]
    /\ UNCHANGED <<srv_kind, srv_listening, srv_api, srv_files>>
    /\ UNCHANGED outside_srv

\* --- handle_client of stt_server.py ---

SttHandlerRecvHeader(c) ==
    /\ srv_kind = "stt"
    /\ conns[c].pc = "recv_header"
    /\ HandlerStep(c,
          LET conn == conns[c]
          IN  {LET f == ParseFormatInfo(chunk)
                   rest == [conn EXCEPT
                               !.to_server = Tail_(@, Len(chunk) + 1)]
               IN  IF f.ok
                   THEN [rest EXCEPT
                            !.format = [rate |-> f.rate,
                                        channels |-> f.channels,
                                        sample_width |-> f.sample_width],
                            !.pc = "send_ack"]
                   ELSE HandlerFail(rest)
               : chunk \in Recv(conn.to_server, 1024, conn.client = "gone")})

SttHandlerSendAck(c) ==
    /\ srv_kind = "stt"
    /\ conns[c].pc = "send_ack"
    /\ HandlerStep(c,
          HandlerSendall(conns[c], ACK, [conns[c] EXCEPT !.pc = "recv_audio"],
                         HandlerFail(conns[c])))

SttHandlerRecvAudio(c) ==
    /\ srv_kind = "stt"
    /\ conns[c].pc = "recv_audio"
    /\ HandlerStep(c,
          LET conn == conns[c]
          IN  {LET rest == [conn EXCEPT
                               !.to_server = Tail_(@, Len(chunk) + 1)]
               IN  IF EndSeen(conn.audio_data, chunk)
                   THEN [rest EXCEPT
                            !.audio_data = @ \o Split(chunk, END)[1],
                            !.pc = "write_file"]
                   ELSE IF chunk = <<>>
                   THEN [rest EXCEPT !.pc = "write_file"]
                   ELSE [rest EXCEPT !.audio_data = @ \o chunk]
               : chunk \in Recv(conn.to_server, 4096, conn.client = "gone")})

\* with wave.open(temp_file, 'wb') as wf: ... wf.writeframes(audio_data)
SttHandlerWriteFile(c) ==
    /\ srv_kind = "stt"
    /\ conns[c].pc = "write_file"
    /\ Running(c)
    /\ LET conn == conns[c]
       IN  IF conn.format.channels < 1 \/ conn.format.sample_width \notin 1..4
              \/ conn.format.rate < 1
           THEN /\ conns' = [conns EXCEPT ![c] = HandlerFail(conn)]
                /\ srv_files' =
                      [srv_files EXCEPT ![TempFile(conn.client_address)] =
                          Some(EmptyWaveFile)]
           ELSE /\ srv_files' =
                      [srv_files EXCEPT ![TempFile(conn.client_address)] =
                          Some([format |-> conn.format,
                                frames |-> conn.audio_data])]
                /\ conns' = [conns EXCEPT ![c].pc = "read_file"]
    /\ UNCHANGED <<srv_kind, srv_listening, srv_api>>
    /\ UNCHANGED outside_srv

\* with open(temp_file, 'rb') as audio_file: audio_content = audio_file.read()
SttHandlerReadFile(c) ==
    /\ srv_kind = "stt"
    /\ conns[c].pc = "read_file"
    /\ HandlerStep(c,
          LET conn == conns[c]
              file == srv_files[TempFile(conn.client_address)]
          IN  IF file = None THEN {HandlerFail(conn)}
              ELSE {[conn EXCEPT !.audio_content = file,
                                 !.pc = "transcribe"]})

\* transcription = transcribe_audio_file(audio_content, rate)
SttHandlerTranscribe(c) ==
    /\ srv_kind = "stt"
    /\ conns[c].pc = "transcribe"
    /\ HandlerStep(c,
          LET called == [conns[c] EXCEPT !.calls = @ + 1]
          IN  {[called EXCEPT !.transcription = transcribe_audio_file(results),
                              !.pc = "send_transcription"]
               : results \in {r \in ApiResponses : Len(r) <= 1}}
                  \cup {HandlerFail(called)})

SttHandlerSendTranscription(c) ==
    /\ srv_kind = "stt"
    /\ conns[c].pc = "send_transcription"
    /\ HandlerStep(c,
          HandlerSendall(conns[c], conns[c].transcription,
                         [conns[c] EXCEPT !.pc = "send_end"],
                         HandlerFail(conns[c])))

SttHandlerSendEnd(c) ==
    /\ srv_kind = "stt"
    /\ conns[c].pc = "send_end"
    /\ HandlerStep(c,
          HandlerSendall(conns[c], END_TRANSCRIPTION,
                         [conns[c] EXCEPT !.pc = "remove_file"],
                         HandlerFail(conns[c])))

\* os.remove(temp_file), then the finally clause.
SttHandlerRemoveFile(c) ==
    /\ srv_kind = "stt"
    /\ conns[c].pc = "remove_file"
    /\ Running(c)
    /\ LET conn == conns[c]
           name == TempFile(conn.client_address)
       IN  IF srv_files[name] = None
           THEN /\ conns' = [conns EXCEPT ![c] = HandlerFail(conn)]
                /\ UNCHANGED srv_files
           ELSE /\ srv_files' = [srv_files EXCEPT ![name] = None]
                /\ conns' = [conns EXCEPT ![c] = HandlerDone(conn)]
    /\ UNCHANGED <<srv_kind, srv_listening, srv_api>>
    /\ UNCHANGED outside_srv

\* --- handle_client of tts_server.py ---

TtsHandlerRecvRequest(c) ==
    /\ srv_kind = "tts"
    /\ conns[c].pc = "recv_request"
    /\ HandlerStep(c,
          LET conn == conns[c]
          IN  {LET rest == [conn EXCEPT
                               !.to_server = Tail_(@, Len(chunk) + 1)]
               IN  IF EndRequestSeen(conn.data, chunk)
                   THEN [rest EXCEPT
                            !.data = @ \o Split(chunk, END_REQUEST)[1],
                            !.pc = "synthesize"]
                   ELSE IF chunk = <<>>
                   THEN [rest EXCEPT !.pc = "synthesize"]
                   ELSE [rest EXCEPT !.data = @ \o chunk]
               : chunk \in Recv(conn.to_server, 4096, conn.client = "gone")})

\* A server whose handlers keep the request in one buffer of the module.
SharedData(c) == conns[1].data

\* data, a local variable of handle_client.
HandlerData(c) == conns[c].data

\* audio_content = synthesize_text(request_text, ...)
TtsHandlerSynthesize(c) ==
    /\ srv_kind = "tts"
    /\ conns[c].pc = "synthesize"
    /\ HandlerStep(c,
          LET args == ParseRequest(HandlerData(c))
              result == SynthesizeText(args)
              called == [conns[c] EXCEPT !.calls = @ + 1,
                                         !.synth_args = Some(args)]
          IN  IF result.ok
              THEN {[called EXCEPT !.audio_content = Some(result.value),
                                   !.pc = "send_size"]}
              ELSE {[called EXCEPT !.error_msg = ErrorMsg(result.value),
                                   !.raised = TRUE,
                                   !.pc = "send_error"]})

\* A write of the reply raised: the except clause of the synthesis block.
SendRaised(conn) ==
    [conn EXCEPT !.error_msg = ErrorMsg(BROKEN_PIPE), !.raised = TRUE,
                 !.pc = "send_error"]

TtsHandlerSendSize(c) ==
    /\ srv_kind = "tts"
    /\ conns[c].pc = "send_size"
    /\ HandlerStep(c,
          HandlerSendall(conns[c],
                         IntToStr(Len(conns[c].audio_content[1])) \o NL,
                         [conns[c] EXCEPT !.pc = "send_audio"],
                         SendRaised(conns[c])))

TtsHandlerSendAudio(c) ==
    /\ srv_kind = "tts"
    /\ conns[c].pc = "send_audio"
    /\ HandlerStep(c,
          HandlerSendall(conns[c], conns[c].audio_content[1],
                         [conns[c] EXCEPT !.pc = "send_end_audio"],
                         SendRaised(conns[c])))

TtsHandlerSendEndAudio(c) ==
    /\ srv_kind = "tts"
    /\ conns[c].pc = "send_end_audio"
    /\ HandlerStep(c,
          HandlerSendall(conns[c], END_AUDIO, HandlerDone(conns[c]),
                         SendRaised(conns[c])))

\* client_socket.sendall(f"ERROR: {error_msg}".encode('utf-8')); when this
\* write raises too, the outer except clause takes it.
TtsHandlerSendError(c) ==
    /\ srv_kind = "tts"
    /\ conns[c].pc = "send_error"
    /\ HandlerStep(c,
          HandlerSendall(conns[c],
                         ERROR_PREFIX \o <<" ">> \o conns[c].error_msg,
                         HandlerDone(conns[c]), HandlerFail(conns[c])))

\* --- the server and its connections ---

InitServer ==
    /\ ServerInit
    /\ MicIdle
    /\ SttIdle
    /\ mic2stt = <<>>
    /\ stt2mic = <<>>
    /\ SpkIdle
    /\ TtsIdle
    /\ spk2tts = <<>>
    /\ tts2spk = <<>>
    /\ AnyIdle
    /\ IntIdle

ClientStep(c) ==
    \/ ClientSend(c)
    \/ ClientAfterAck(c)
    \/ ClientLeaves(c)

SttHandler(c) ==
    \/ SttHandlerRecvHeader(c)
    \/ SttHandlerSendAck(c)
    \/ SttHandlerRecvAudio(c)
    \/ SttHandlerWriteFile(c)
    \/ SttHandlerReadFile(c)
    \/ SttHandlerTranscribe(c)
    \/ SttHandlerSendTranscription(c)
    \/ SttHandlerSendEnd(c)
    \/ SttHandlerRemoveFile(c)

TtsHandler(c) ==
    \/ TtsHandlerRecvRequest(c)
    \/ TtsHandlerSynthesize(c)
    \/ TtsHandlerSendSize(c)
    \/ TtsHandlerSendAudio(c)
    \/ TtsHandlerSendEndAudio(c)
    \/ TtsHandlerSendError(c)

NextServer ==
    \/ \E c \in ConnIds : Accept(c)
    \/ \E c \in ConnIds : ClientStep(c)
    \/ \E c \in ConnIds : SttHandler(c)
    \/ \E c \in ConnIds : TtsHandler(c)
    \/ ServerStopped

SpecServer == InitServer /\ [][NextServer]_vars

\* ------------------------------------------------------------------------
\* Properties of the transcription exchange
\* ------------------------------------------------------------------------

\* The audio bytes the client captured, in capture order.
MicPayload == Join(mic_frames)

\* The client has written its header, its whole payload and the END
\* sentinel.
MicSentAll == mic_sent = FormatInfo \o MicPayload \o END

\* The handler has left its receive loop and still runs.
SttAfterLoop ==
    stt_pc \in {"save_file", "transcribe", "send_transcription", "send_end",
                "remove_file"}

\* C1: for an audio payload free of the bytes END, whatever the division
\* of the stream into recv chunks, the audio_data the handler holds when it
\* has left its receive loop equals the bytes the client sent between ACK
\* and END.
C1_ReassembledEqualsSent ==
    (SttAfterLoop /\ MicSentAll /\ ~Contains(MicPayload, END))
        => stt_audio_data = MicPayload

\* C2: once the client has sent header, END-free audio and END, neither
\* side blocks forever: while the client waits for the transcript a step of
\* the client or of the server is possible, and a handler whose external
\* call returned and whose client is still there ends having sent the
\* transcript followed by END_TRANSCRIPTION.
C2_NeverBlocksForever ==
    (MicSentAll /\ ~Contains(MicPayload, END)) =>
        /\ mic_pc = "recv_transcription" => ENABLED (MicStep \/ SttStep)
        /\ (stt_pc = "closed" /\ stt_transcription # <<>> /\ ~MicGone)
              => stt_sent = ACK \o stt_transcription \o END_TRANSCRIPTION

\* C7: the client writes nothing after its header unless the bytes it read
\* as the acknowledgment are exactly ACK.
C7_NothingSentWithoutAck ==
    (mic_sent # <<>> /\ mic_sent # FormatInfo) => mic_ack = ACK

\* C7 witness: a partial acknowledgment was read, the client returned and
\* only the header was ever written.
C7_PartialAckAborts ==
    /\ mic_pc = "returned"
    /\ mic_ack = <<"A">>
    /\ mic_sent = FormatInfo

\* The transcription call raised: the handler ended after it had written
\* its temporary file and before it had any transcription.
SttApiRaised ==
    /\ stt_pc = "closed"
    /\ stt_temp_file # <<>>
    /\ stt_transcription = <<>>

\* C12: when the transcription call raises, the handler has written
\* nothing but ACK and has closed its socket; a client that sent its whole
\* recording is not left waiting: it reads end-of-stream, and when it has
\* returned it has printed an empty transcript.
C12_ApiFailureGivesEmptyTranscript ==
    SttApiRaised =>
        /\ stt_sent = ACK
        /\ stt_sock = "closed"
        /\ MicSentAll =>
              \/ mic_pc = "recv_transcription" /\ ENABLED MicRecvTranscription
              \/ mic_pc = "returned" /\ mic_printed = << <<>> >>
              \/ mic_pc = "interrupted"

\* C12 witness: the call raised after a whole recording, and the client
\* has returned with an empty transcript.
C12_ClientPrintedNothing ==
    /\ SttApiRaised
    /\ MicSentAll
    /\ MicPayload # <<>>
    /\ mic_pc = "returned"
    /\ mic_sock = "closed"
    /\ mic_printed = << <<>> >>

\* ------------------------------------------------------------------------
\* Properties of the synthesis exchange
\* ------------------------------------------------------------------------

\* The first line of what the client read in its size loop.
SpkSizeLine == Split(spk_size_data, NL)[1]

\* The handler has written a whole successful reply for its audio.
TtsRepliedAudio ==
    tts_sent = IntToStr(Len(tts_audio_content)) \o NL \o tts_audio_content
                   \o END_AUDIO

\* C3: for a successful reply whose audio is free of END_AUDIO, whatever
\* the division of the reply into recv chunks, the temporary file the
\* client is about to play holds exactly the audio bytes.
C3_TempFileHoldsAudio ==
    (spk_pc = "play" /\ TtsRepliedAudio
         /\ ~Contains(tts_audio_content, END_AUDIO))
        => spk_temp_file = Some(tts_audio_content)

\* C4: a first line that begins with ERROR: is taken as an error and never
\* as a length (no expected size, no file, nothing saved or played); a
\* first line that is a decimal integer is taken as the length and the
\* client goes on to the audio; nothing is decided before the size loop
\* has ended.
C4_ErrorAndLengthKeptApart ==
    /\ spk_outcome = "none" => spk_expected_size = None
    /\ (spk_outcome # "none" /\ StartsWith(SpkSizeLine, ERROR_PREFIX))
          => /\ spk_outcome = "error_reply"
             /\ spk_expected_size = None
             /\ spk_temp_file = None
             /\ spk_saved = None
             /\ spk_played = None
    /\ (spk_outcome # "none" /\ IsInt(SpkSizeLine))
          => /\ spk_outcome = "audio"
             /\ spk_expected_size = Some(StrToInt(SpkSizeLine))

\* C4 witness: an ERROR: reply without any newline, read up to the end of
\* the stream, ended the exchange as an error.
C4_ErrorReplyWithoutNewline ==
    /\ spk_pc = "returned"
    /\ spk_outcome = "error_reply"
    /\ ~Contains(spk_size_data, NL)
    /\ spk_size_data = tts_sent
    /\ tts_pc = "closed"

\* The two shapes of a reply.
IsSuccessFrame(b) ==
    /\ Contains(b, NL)
    /\ LET line == Split(b, NL)[1]
           rest == SplitMax(b, NL, 1)[2]
       IN  /\ IsInt(line)
           /\ Len(rest) = StrToInt(line) + Len(END_AUDIO)
           /\ Tail_(rest, StrToInt(line) + 1) = END_AUDIO

IsErrorFrame(b) == StartsWith(b, ERROR_PREFIX) /\ ~Contains(b, END_AUDIO)

\* C6: what a handler has written when it closes is a whole success reply
\* (length, newline, that many bytes, END_AUDIO) or a single ERROR: frame.
C6_ReplyIsOneOfTwoShapes ==
    (tts_pc = "closed" /\ tts_sent # <<>>)
        => IsSuccessFrame(tts_sent) \/ IsErrorFrame(tts_sent)

\* The client has written its request and the sentinel.
SpkRequestWritten == spk_pc \in {"recv_size", "recv_audio", "play"}

\* VOICE_PARAMS||<voice>||<lang>||<rate>||<text> for some three fields.
IsExtendedFormOf(request, text) ==
    /\ StartsWith(request, VOICE_PARAMS)
    /\ Len(SplitMax(request, DELIM, 4)) = 5
    /\ SplitMax(request, DELIM, 4)[5] = text

\* C8: the client sends the extended form whenever one of voice name,
\* language code or speaking rate is not None, the plain text when all
\* three are None, and END_REQUEST after either.
C8_ExtendedFormWhenSupplied ==
    SpkRequestWritten =>
        \E request \in {SubSeq(spk_sent, 1, n) : n \in 0..Len(spk_sent)} :
            /\ spk_sent = request \o END_REQUEST
            /\ IF AnySupplied(spk_args.voice_name, spk_args.language_code,
                              spk_args.speaking_rate)
               THEN IsExtendedFormOf(request, spk_args.text)
               ELSE request = spk_args.text

\* The reply the client was reading ended before any END_AUDIO: the handler
\* wrote a length and is gone without having written the sentinel.
SpkReplyCutShort ==
    /\ spk_outcome = "audio"
    /\ tts_pc = "stopped"
    /\ ~Contains(tts_sent, END_AUDIO)

\* C11: a client that meets end-of-stream before the sentinel abandons the
\* operation: when the reply ended without END_AUDIO the speech request
\* client has neither saved nor played the bytes it received.
C11_PartialAudioAbandoned ==
    (spk_pc = "returned" /\ SpkReplyCutShort)
        => spk_saved = None /\ spk_played = None

\* ------------------------------------------------------------------------
\* Properties of the request path
\* ------------------------------------------------------------------------

\* synthesize_text called with this text and the server's defaults.
CalledWithDefaults(text) ==
    tts_synth_args = Some([text |-> text,
                           voice_name |-> DEFAULT_VOICE,
                           language_code |-> DEFAULT_LANGUAGE,
                           speaking_rate |-> DEFAULT_RATE])

\* C5: for a text T that does not begin with VOICE_PARAMS||, the plain
\* request T and the extended request with three empty fields both make
\* the handler call synthesize_text with T and the server's defaults.
C5_PlainIsExtendedWithEmptyFields ==
    (tts_synth_args # None /\ ~StartsWith(any_req.text, VOICE_PARAMS)
         /\ any_req.voice = <<>> /\ any_req.language = <<>>
         /\ any_req.rate.str = <<>>)
        => CalledWithDefaults(any_req.text)

\* C9: for an extended request VOICE_PARAMS||v||l||r||t (v, l and r free
\* of '|'), synthesize_text is called with v, l and r where they are not
\* empty and the default where they are, the default rate for a rate that
\* is no number, and t unchanged.
C9_FieldsOrDefaults ==
    (tts_synth_args # None /\ any_req.kind = "extended")
        => tts_synth_args =
             Some([text |-> any_req.text,
                   voice_name |-> IF any_req.voice = <<>>
                                  THEN DEFAULT_VOICE ELSE any_req.voice,
                   language_code |-> IF any_req.language = <<>>
                                     THEN DEFAULT_LANGUAGE
                                     ELSE any_req.language,
                   speaking_rate |-> any_req.rate.expected])

\* C9 witness: an extended request with an empty voice, a rate that is no
\* number and a text that holds the delimiter has been parsed.
C9_ParsedTextWithDelimiter ==
    /\ tts_synth_args # None
    /\ any_req.kind = "extended"
    /\ any_req.voice = <<>>
    /\ any_req.language = <<"f","r">>
    /\ any_req.rate.str = <<"x">>
    /\ any_req.text = <<"a">> \o DELIM

\* ------------------------------------------------------------------------
\* Properties of the interactive session
\* ------------------------------------------------------------------------

\* C10: after a text line sent while a save path was set, the save path
\* is None before the next line is read, whatever the outcome of the send,
\* and voice name, language code and speaking rate are what they were.
C10_SavePathIsOneShot ==
    (int_pc = "prompt" /\ int_last # None /\ int_last[1].save_file # None)
        => /\ int_save_file = None
           /\ int_voice_name = int_last[1].voice_name
           /\ int_language_code = int_last[1].language_code
           /\ int_speaking_rate = int_last[1].speaking_rate

\* ------------------------------------------------------------------------
\* Properties of a server with several connections
\* ------------------------------------------------------------------------

\* The handler of connection c received the request of its client whole,
\* has ended, and none of its writes raised.
Served(c) ==
    /\ conns[c].pc = "closed"
    /\ conns[c].data = conns[c].payload
    /\ ~conns[c].broken

Rank(pc) ==
    CASE pc = "free" -> 0
      [] pc = "recv_header" -> 1
      [] pc = "send_ack" -> 2
      [] pc \in {"recv_audio", "recv_request"} -> 3
      [] pc = "write_file" -> 4
      [] pc = "read_file" -> 5
      [] pc \in {"transcribe", "synthesize"} -> 6
      [] pc \in {"send_transcription", "send_size"} -> 7
      [] pc \in {"send_end", "send_audio"} -> 8
      [] pc \in {"remove_file", "send_end_audio"} -> 9
      [] pc = "send_error" -> 10
      [] pc \in {"closed", "stopped"} -> 11

\* What every step does to the handler of connection c, a failure apart:
\* it stays in its state or moves to a later one, it invokes the capability
\* at most once and only from the state after the receive loop, and it
\* writes no byte but the acknowledgment before the capability was
\* invoked.
ForwardOnly(c) ==
    LET a == conns[c]
        b == conns'[c]
    IN  /\ Rank(b.pc) >= Rank(a.pc)
        /\ b.calls \in {a.calls, a.calls + 1} \/ b.pc = "stopped"
        /\ b.calls <= 1
        /\ b.calls > a.calls => a.pc \in {"transcribe", "synthesize"}
        /\ (b.sent # a.sent /\ b.pc # "stopped")
              => a.pc = "send_ack" \/ a.calls = 1

\* The handler of connection c raises in this step.
Raises(c) == conns'[c].raised /\ ~conns[c].raised

\* C14: a handler of either server moves only forward through its states,
\* invokes the capability at most once and after its receive loop, sends
\* no reply byte before the call, and goes to CLOSED when it fails; in the
\* synthesis server a failure of the call or of a reply write passes
\* through one write of an ERROR: frame before CLOSED.
C14_ForwardErrorFrameThenClosed ==
    [][\A c \in ConnIds :
          /\ ForwardOnly(c)
          /\ Raises(c) =>
                \/ conns'[c].pc = "closed"
                \/ srv_kind = "tts" /\ conns'[c].pc = "send_error"
                      /\ conns[c].pc \in {"synthesize", "send_size",
                                          "send_audio", "send_end_audio"}]_vars

\* C14 as stated: every failure leads directly to CLOSED.
C14_FailureDirectlyClosed ==
    [][\A c \in ConnIds :
          /\ ForwardOnly(c)
          /\ Raises(c) => conns'[c].pc = "closed"]_vars

\* C14 witness: a handler of the synthesis server whose capability raised
\* has ended, having called it once and written one ERROR: frame.
C14_ClosedAfterErrorFrame ==
    \E c \in ConnIds :
        /\ srv_kind = "tts"
        /\ conns[c].pc = "closed"
        /\ conns[c].raised
        /\ conns[c].calls = 1
        /\ IsErrorFrame(conns[c].sent)
        /\ ~SynthesizeText(conns[c].synth_args[1]).ok

\* The reply a handler writes when nothing fails.
WholeReply(conn) ==
    IF srv_kind = "stt"
    THEN ACK \o conn.transcription \o END_TRANSCRIPTION
    ELSE IntToStr(Len(conn.audio_content[1])) \o NL
             \o conn.audio_content[1] \o END_AUDIO

\* C15: an exception in a handler is caught there: the handler ends with
\* its client socket closed, on the normal path and on every exceptional
\* one, the step in which a handler raises leaves the accept loop as it
\* was, and after a failure the server can accept the next connection.
C15_FailureStaysInHandler ==
    /\ [](\A c \in ConnIds :
            /\ conns[c].pc = "closed" => conns[c].client_socket = "closed"
            /\ (conns[c].raised /\ srv_listening)
                  => \A d \in ConnIds :
                        (conns[d].pc = "free"
                             /\ \A e \in ConnIds : e < d => conns[e].pc # "free")
                            => ENABLED Accept(d))
    /\ [][\A c \in ConnIds :
            Raises(c) => /\ srv_listening' = srv_listening
                         /\ conns'[c].client_socket = "closed"
                               \/ conns'[c].pc = "send_error"
                         /\ \A d \in ConnIds \ {c} : conns'[d] = conns[d]]_vars

\* C15 witness: a connection accepted after the handler of an earlier one
\* had failed was served its whole reply, and the server still listens.
C15_ServedAfterFailure ==
    \E c \in ConnIds :
        /\ srv_listening
        /\ conns[c].after_failure
        /\ conns[c].pc = "closed"
        /\ ~conns[c].raised
        /\ conns[c].client = "await_reply"
        /\ conns[c].received = WholeReply(conns[c])

\* The handler of connection c has not ended.
Unfinished(c) == conns[c].pc \notin {"free", "closed", "stopped"}

\* The handler of connection c waits in recv on a peer that is connected
\* and has sent nothing it has not read.
AwaitsPeer(c) ==
    /\ conns[c].pc \in {"recv_header", "recv_audio", "recv_request"}
    /\ conns[c].to_server = <<>>
    /\ conns[c].client # "gone"

\* C16: a handler that has not ended, wherever it waits (in recv on a
\* silent peer, at its file, at the external call), holds up no other
\* connection: the server can accept the next connection, and the handler
\* of any other connection can take its next step unless it waits for
\* its own peer.
C16_BlockedHandlerStallsOnlyItself ==
    \A c, d \in ConnIds :
        (c # d /\ Unfinished(c)) =>
            /\ (/\ srv_listening
                /\ conns[d].pc = "free"
                /\ \A e \in ConnIds : e < d => conns[e].pc # "free")
                  => ENABLED Accept(d)
            /\ (Unfinished(d) /\ ~AwaitsPeer(d))
                  => ENABLED (SttHandler(d) \/ TtsHandler(d))

\* C16 witness: the first connection's peer has sent nothing and its
\* handler still waits for the first bytes, while the client of the second
\* connection has received its whole reply and its handler has ended.
C16_SecondServedWhileFirstWaits ==
    /\ conns[1].client = "start"
    /\ AwaitsPeer(1)
    /\ conns[2].pc = "closed"
    /\ conns[2].client_socket = "closed"
    /\ ~conns[2].raised
    /\ conns[2].client = "await_reply"
    /\ conns[2].received = WholeReply(conns[2])

\* C17: the audio content a transcription handler read from its temporary
\* file, which is what it passes to the capability, is the format and the
\* frames received on its own connection.
C17_OwnPayloadTranscribed ==
    \A c \in ConnIds :
        (srv_kind = "stt" /\ conns[c].audio_content # None)
            => conns[c].audio_content =
                   Some([format |-> conns[c].format,
                         frames |-> conns[c].audio_data])

\* ------------------------------------------------------------------------
\* Properties of the transcript reply
\* ------------------------------------------------------------------------

\* The handler has written the acknowledgment, its transcript and the
\* sentinel.
SttSentWholeReply ==
    /\ stt_transcription # <<>>
    /\ stt_sent = ACK \o stt_transcription \o END_TRANSCRIPTION

\* C18: for a transcript free of END_TRANSCRIPTION and any division of the
\* reply into recv chunks, what the audio client prints is exactly the
\* transcript the server wrote before the sentinel.
C18_PrintedEqualsTranscript ==
    (/\ SttSentWholeReply
     /\ ~Contains(stt_transcription, END_TRANSCRIPTION)
     /\ mic_pc = "returned"
     /\ mic_printed # None)
        => /\ mic_printed = Some(stt_transcription)
           /\ mic_transcription_data = stt_transcription

\* The block of the reply for the i-th alternative.
ResultBlock(i, alternative) ==
    <<"R","e","s","u","l","t"," ">> \o IntToStr(i) \o <<":","\n">>
        \o <<" "," ","T","r","a","n","s","c","r","i","p","t",":"," ">>
        \o alternative.transcript \o <<"\n">>
        \o <<" "," ","C","o","n","f","i","d","e","n","c","e",":"," ">>
        \o FormatConfidence(alternative.confidence) \o <<"\n">>

\* The reply text for the alternatives the capability returned.
ExpectedText(results) ==
    IF results = <<>> THEN NO_RESULTS
    ELSE Join([i \in 1..Len(results) |-> ResultBlock(i, results[i])])

\* The handler ended on its normal path: it removed its temporary file.
SttEndedNormally ==
    /\ stt_pc = "closed"
    /\ stt_results # None
    /\ stt_temp_file = None

\* C19: once the capability has returned, what the handler writes after
\* the acknowledgment is the fixed no-results text when there is no
\* alternative, and otherwise one block per alternative, numbered from 1 in
\* the order returned, each with its transcript and confidence; then
\* END_TRANSCRIPTION, after which the handler closes.  A handler that has
\* ended normally has written all of it.
C19_ReplyListsAlternatives ==
    stt_results # None =>
        LET text == ExpectedText(stt_results[1])
        IN  /\ stt_sent \in {ACK, ACK \o text,
                              ACK \o text \o END_TRANSCRIPTION}
            /\ SttEndedNormally
                  => /\ stt_sent = ACK \o text \o END_TRANSCRIPTION
                     /\ stt_sock = "closed"

\* C19 witness: the capability returned two alternatives, the handler has
\* ended and the client holds both blocks, in order.
C19_TwoAlternativesListed ==
    /\ SttEndedNormally
    /\ Len(stt_results[1]) = 2
    /\ mic_pc = "returned"
    /\ mic_printed =
          Some(ResultBlock(1, stt_results[1][1])
                   \o ResultBlock(2, stt_results[1][2]))

\* ------------------------------------------------------------------------
\* Properties of the reply path of the speech request client
\* ------------------------------------------------------------------------

\* The bytes of the reply the server wrote that come before the first
\* END_AUDIO.
AudioBeforeSentinel == Split(AfterSizeLine(tts_sent), END_AUDIO)[1]

\* C20: the audio the client stores does not depend on the declared
\* length: for a success reply whose length line is larger or smaller than
\* its payload, what the client stores is what it stores for the right
\* length, the bytes before the first END_AUDIO.
C20_StoredAudioIgnoresLength ==
    (/\ spk_pc = "returned"
     /\ spk_saved # None
     /\ tts_audio_content # <<>>
     /\ spk_expected_size # Some(Len(tts_audio_content[1])))
        => spk_saved = Some(AudioBeforeSentinel)

\* ------------------------------------------------------------------------
\* Properties of the header path of the transcription server
\* ------------------------------------------------------------------------

\* The number of commas in a byte string.
Commas(b) == Cardinality({i \in 1..Len(b) : b[i] = ","})

\* b is exactly three comma-separated integers: two commas, a digit at
\* both ends and on both sides of each comma, nothing but digits between.
ThreeIntegers(b) ==
    /\ Commas(b) = 2
    /\ Len(b) >= 5
    /\ IsDigit(b[1]) /\ IsDigit(b[Len(b)])
    /\ \A i \in 1..Len(b) :
          \/ IsDigit(b[i])
          \/ b[i] = "," /\ i > 1 /\ i < Len(b)
                /\ IsDigit(b[i - 1]) /\ IsDigit(b[i + 1])

\* The handler has read its first message.
SttHeaderRead == stt_format_info # None

\* The handler ended without an acknowledgment, a temporary file or a call
\* of the capability.
SttRejected ==
    /\ stt_pc = "closed"
    /\ stt_sock = "closed"
    /\ stt_sent = <<>>
    /\ stt_temp_file = None
    /\ stt_results = None

\* C21: when the bytes of the handler's first recv are not exactly three
\* comma-separated integers (wrong arity, a field that is no integer, a
\* part of a split header that is not itself three integers), the handler
\* sends no ACK, creates no temporary file, makes no external call and
\* closes.
C21_BadFirstMessageRejected ==
    (SttHeaderRead /\ ~ThreeIntegers(stt_format_info[1])) => SttRejected

\* C21 as stated: the same for every first recv that holds only part of
\* the header the client wrote.
C21_PartOfHeaderRejected ==
    (SttHeaderRead
        /\ (\/ ~ThreeIntegers(stt_format_info[1])
            \/ mic_pc = "wait_ack"
                  /\ Len(stt_format_info[1]) < Len(mic_sent)))
        => SttRejected

\* C21 witness: the first recv returned a proper part of the header of
\* record_and_send and the handler has closed.
C21_SplitHeaderRejected ==
    /\ SttHeaderRead
    /\ stt_format_info[1] # <<>>
    /\ stt_format_info[1] # FormatInfo
    /\ StartsWith(FormatInfo, stt_format_info[1])
    /\ StartsWith(mic_sent, FormatInfo)
    /\ SttRejected

\* ------------------------------------------------------------------------
\* Properties of the audio client's buffer
\* ------------------------------------------------------------------------

\* C22: between the iterations of the capture loop and after it, the
\* concatenation of the buffered frames is the audio written to the socket
\* so far, in capture order; END follows it once the loop has ended, and a
\* local recording holds exactly the payload written before END.
C22_BufferEqualsSent ==
    /\ mic_pc = "record" => mic_sent = FormatInfo \o Join(mic_frames)
    /\ (mic_pc = "recv_transcription"
           \/ (mic_pc = "returned" /\ mic_ack = ACK))
          => mic_sent = FormatInfo \o Join(mic_frames) \o END
    /\ mic_local_file # <<>>
          => /\ mic_local_file = <<Join(mic_frames)>>
             /\ mic_sent = FormatInfo \o mic_local_file[1] \o END

\* C22 witness: two different chunks were captured and forwarded, and the
\* local recording was saved.
C22_TwoChunksSaved ==
    /\ mic_pc = "returned"
    /\ Len(mic_frames) = 2
    /\ mic_frames[1] # mic_frames[2]
    /\ mic_local_file = <<mic_frames[1] \o mic_frames[2]>>
    /\ mic_sent = FormatInfo \o mic_frames[1] \o mic_frames[2] \o END

\* ------------------------------------------------------------------------
\* Properties of the voice parameters from end to end
\* ------------------------------------------------------------------------

\* C23: a speaking rate the client was called with is the speaking rate
\* the handler passes to synthesize_text, a rate of 0 included.
C23_SuppliedRateReachesCapability ==
    (/\ tts_synth_args # None
     /\ spk_sent = tts_data \o END_REQUEST
     /\ spk_args.speaking_rate # None)
        => tts_synth_args[1].speaking_rate = spk_args.speaking_rate[1]

\* ------------------------------------------------------------------------
\* Properties of the resources a program holds when it ends
\* ------------------------------------------------------------------------

\* C24: when the transcription handler has closed its connection, the
\* temporary WAV file it created no longer exists, whichever path the
\* handler took.
C24_ClosedHandlerLeftNoFile ==
    stt_pc = "closed" => stt_temp_file = <<>>

\* C25: when record_and_send has returned after a successful connect (it
\* wrote its header), it has closed its socket itself, after an
\* acknowledgment that did not match as well as after a whole exchange.
C25_ReturnedClientClosedSocket ==
    (mic_pc = "returned" /\ mic_sent # <<>>) => mic_sock = "closed"

\* ------------------------------------------------------------------------
\* Properties of the lines of an interactive session
\* ------------------------------------------------------------------------

\* The request send_text_and_play_speech builds for the send recorded in
\* int_last.
LastRequest ==
    BuildRequest(int_last[1].text,
                 Some(int_last[1].voice_name),
                 Some(int_last[1].language_code),
                 Some(int_last[1].speaking_rate))

\* The line is a command given without an argument.
BareCommand(text, cmd) ==
    /\ StartsWith(text, <<"/">>)
    /\ Len(SplitFirst(text)) = 1
    /\ Lower(SplitFirst(text)[1]) = cmd

\* C26: in an interactive session the voice name and the language code
\* are never empty, so every request the session sends is in the extended
\* VOICE_PARAMS|| form; a line that is empty or starts with '/' sends
\* nothing; and a /voice or /lang line without an argument changes no
\* setting.
C26_SessionSendsExtendedOnly ==
    /\ [](/\ int_voice_name # <<>>
          /\ int_language_code # <<>>
          /\ int_last # None => StartsWith(LastRequest, VOICE_PARAMS)
          /\ (int_text # None
                 /\ (int_text[1] = <<>> \/ StartsWith(int_text[1], <<"/">>)))
                => int_last = None)
    /\ [][(/\ int_lines' = int_lines + 1
            /\ \/ BareCommand(int_text'[1], CMD_VOICE)
               \/ BareCommand(int_text'[1], CMD_LANG))
              => UNCHANGED <<int_voice_name, int_language_code,
                             int_speaking_rate, int_save_file>>]_vars

\* C26 witness: after the voice was set to M, a /voice line that holds
\* only a blank after the command was read and the voice is still M.
C26_BlankVoiceArgumentIgnored ==
    /\ int_text = Some(<<"/","v","o","i","c","e"," ">>)
    /\ int_voice_name = <<"M">>
    /\ int_last = None

\* The line is "/rate" with an argument that float() rejects.
RateLineNoNumber(text) ==
    /\ StartsWith(text, <<"/">>)
    /\ Len(SplitFirst(text)) = 2
    /\ Lower(SplitFirst(text)[1]) = CMD_RATE
    /\ ~IsFloat(SplitFirst(text)[2])

\* C27: the turn of the loop that reads a /rate line whose argument is no
\* number prints the error message, leaves speaking rate, voice name,
\* language code and save path as they were, sends nothing and goes on
\* to the next prompt.
C27_BadRateChangesNothing ==
    [][(int_lines' = int_lines + 1 /\ RateLineNoNumber(int_text'[1]))
          => /\ UNCHANGED <<int_speaking_rate, int_voice_name,
                            int_language_code, int_save_file>>
             /\ int_printed' = <<"Error: Rate must be a number">>
             /\ int_last' = None
             /\ int_pc' = "prompt"]_vars

\* C27 witness: with the rate at 0.8 and a save path set, the line
\* "/rate x" was read; rate and save path are as they were.
C27_BadRateAfterSettings ==
    /\ int_text = Some(<<"/","r","a","t","e"," ","x">>)
    /\ int_speaking_rate = 800
    /\ int_save_file = Some(<<"f">>)
    /\ int_printed = <<"Error: Rate must be a number">>

====
